---- MODULE Spec2Model ----
(***************************************************************************)
(* Tick-based economy engine of westex/engines/economy: worker allocation, *)
(* wage settlement, resource consumption, output commit, product market    *)
(* and resource regeneration, as sequenced by core.Engine.                 *)
(*                                                                         *)
(* Numbers.  Money, quantities and hours are float32 in the source.  The   *)
(* model draws them from integers far below 2^24, on which float32         *)
(* addition, subtraction and multiplication are exact.  LaborNeeded may be *)
(* fractional: it is held in units of 1/LaborScale, and the labor needs    *)
(* offered by Init divide LaborScale * hours, so the quotient taken by     *)
(* CalculateProduction is exact as well.                                   *)
(***************************************************************************)
EXTENDS Integers, Sequences, FiniteSets, TLC

\* ----------------------------------------------------------------- bounds
NumPeople == 3
NumIndustries == 2
MaxTicks == 2
\* Ticks of the long run that fills the production history
HistTicks == 12

\* ------------------------------------------------------ program constants
WagePerHour == 10
WeeksPerTick == 4
HoursPerWeek == 40
PricePerUnit == 50
HistoryCap == 10
StandardLaborHours == 8
LaborScale == 2

People == 1..NumPeople
Industries == 1..NumIndustries

\* Resources: 1 = Land, 2 = Ore (raw inputs), 3 = Food, 4 = Medicine (products)
Resources == 1..4
\* Problems by ID: 1 = Food, 2 = Healthcare, 3 = a second problem that is
\* also named Food
Problems == 1..3
\* Population segments: 1 = "Workers", 2 = "Consumers" (the region's), and
\* 3 = "Students"
Segments == 1..3

HoursAvailable == WeeksPerTick * HoursPerWeek
WagePerWorker == HoursAvailable * WagePerHour

VARIABLES
    \* Region, fixed after the scenario is built
    personName,     \* Person.Name, by position in Region.People
    personSegs,     \* Person.Segments: sequence of segment ids
    laborNeeded,    \* Industry.LaborNeeded, in units of 1/LaborScale
    inputs,         \* Industry.InputResources: sequence of resources
    isFree,         \* Resource.IsFree
    regenRate,      \* Resource.RegenerationRate
    laborHours,     \* Person.LaborHours
    calcArgs,       \* arguments of a direct call of CalculateProduction
    regionSegs,     \* Region.PopulationSegments: sequence of segment ids
    params,         \* Engine.WagePerHour, .WeeksPerTick, .HoursPerWeek
    enabled,        \* Logger.enabled
    twin,           \* the same ticks run before on an identical region
    config,         \* RegionConfig handed to BuildRegionFromConfig
    \* Region, mutable
    indMoney,       \* Industry.Money
    perMoney,       \* Person.Money
    qty,            \* Resource.Quantity
    history,        \* Industry.ProductionHistory
    \* Engine
    currentTick,    \* Engine.CurrentTick
    initialWealth,  \* Engine.InitialState.TotalWealth
    \* Run / processTick / processProductionPhase locals
    pc,             \* position in the code
    runN, runI,     \* Run: ticks argument and loop counter i
    ticksDone,      \* ticks executed over all Run calls
    indIdx,         \* index of the industry being processed
    availableWorkers, \* the shrinking pool of the production phase
    allocations,    \* workers handed to each industry in this tick
    workers,        \* workers allocated to the current industry
    result,         \* ProductionResult of the current industry
    payments,       \* LaborPayment records of the current industry
    \* ProcessProductMarket locals
    perIdx,         \* index of the person being served
    needs,          \* remaining needs of that person, in iteration order
    purchases,      \* MarketResult.Purchases
    satisfied,      \* satisfiedPeople (keys)
    market,         \* MarketResult totals of the last market pass
    \* Logger
    events,         \* the events logged since LogTick: <<step, who, ok>>;
                    \* for a function called alone, the calls made
    tickStartQty,   \* Resource.Quantity when the tick began
    tickStartMoney  \* Person.Money when the tick began

setup == <<regionSegs, params, enabled, twin, config>>
static == <<personName, personSegs, laborNeeded, inputs, isFree, regenRate,
            laborHours, calcArgs, setup>>
region == <<indMoney, perMoney, qty, history>>
engine == <<currentTick, initialWealth>>
prodLocals == <<indIdx, availableWorkers, allocations, workers, result, payments>>
marketLocals == <<perIdx, needs, purchases, satisfied, market>>
control == <<runN, runI, ticksDone>>
tickStart == <<tickStartQty, tickStartMoney>>
logged == <<events, tickStart>>
vars == <<static, region, engine, pc, control, prodLocals, marketLocals,
          logged>>

\* ------------------------------------------------------- fixed topology
\* Industry.OutputProducts
outputs == [i \in Industries |-> IF i = 1 THEN <<3>> ELSE <<4, 3>>]
\* Industry.OwnedProblems (problem ids)
owned == [i \in Industries |-> IF i = 1 THEN <<1>> ELSE <<2, 1>>]
\* PopulationSegment.Name and PopulationSegment.Problems
segName == << "Workers", "Consumers", "Students" >>
segProblems == <<  <<1>>, <<1, 2>>, <<3, 2>>  >>
\* Problem.Name
probName == << "Food", "Healthcare", "Food" >>

\* ------------------------------------------------------------- helpers
RECURSIVE SumOver(_, _)
SumOver(f, S) ==
    IF S = {} THEN 0
    ELSE LET x == CHOOSE y \in S : TRUE IN f[x] + SumOver(f, S \ {x})

\* Sum of all industries' and all people's money (NewEngineWithParams loops)
TotalWealth(iM, pM) == SumOver(iM, DOMAIN iM) + SumOver(pM, DOMAIN pM)

Range(s) == { s[k] : k \in DOMAIN s }

Min(a, b) == IF a < b THEN a ELSE b

\* SubSeq from position k+1 to the end: Go's s[k:]
Drop(s, k) == SubSeq(s, k + 1, Len(s))
\* Go's s[:k]
Take(s, k) == SubSeq(s, 1, k)

\* ------------------------------------------- production/labor.go
\* AllocateWorkers with the labor need rounded up instead of truncated
AllocateWorkersCeil(ln, pool) ==
    LET needed == (ln + LaborScale - 1) \div LaborScale
        available == Len(pool)
        count == IF available < needed THEN available ELSE needed
    IN IF count <= 0 THEN <<>> ELSE Take(pool, count)

\* AllocateWorkers: needed := int(industry.LaborNeeded); the first
\* min(needed, available) workers of the pool, none when that is <= 0.
AllocateWorkers(ln, pool) ==
    LET needed == ln \div LaborScale
        available == Len(pool)
        count == IF available < needed THEN available ELSE needed
    IN IF count <= 0 THEN <<>> ELSE Take(pool, count)

\* The payment loop without `industry.Money -= wages`
RECURSIVE PayLoopNoDebit(_, _, _, _, _, _, _, _)
PayLoopNoDebit(i, ws, k, hoursPerWorker, wageRate, iM, pM, pay) ==
    IF k > Len(ws) THEN [err |-> FALSE, indMoney |-> iM, perMoney |-> pM,
                         payments |-> pay]
    ELSE LET wages == hoursPerWorker * wageRate
         IN PayLoopNoDebit(i, ws, k + 1, hoursPerWorker, wageRate, iM,
                 [pM EXCEPT ![ws[k]] = @ + wages],
                 Append(pay, [PersonName |-> personName[ws[k]],
                              Industry |-> i,
                              HoursWorked |-> hoursPerWorker,
                              WageRate |-> wageRate, TotalPaid |-> wages]))

\* The payment loop of PayWorkers (labor.go:40-57), from worker k on.
RECURSIVE PayLoop(_, _, _, _, _, _, _, _)
PayLoop(i, ws, k, hoursPerWorker, wageRate, iM, pM, pay) ==
    IF k > Len(ws) THEN [err |-> FALSE, indMoney |-> iM, perMoney |-> pM,
                         payments |-> pay]
    ELSE LET wages == hoursPerWorker * wageRate
         IN PayLoop(i, ws, k + 1, hoursPerWorker, wageRate,
                 [iM EXCEPT ![i] = @ - wages],
                 [pM EXCEPT ![ws[k]] = @ + wages],
                 Append(pay, [PersonName |-> personName[ws[k]],
                              Industry |-> i,
                              HoursWorked |-> hoursPerWorker,
                              WageRate |-> wageRate, TotalPaid |-> wages]))

\* PayWorkers without the up-front check of the whole bill: workers are
\* paid one by one until the money runs out.
RECURSIVE PayWhileFunded(_, _, _, _, _, _, _, _)
PayWhileFunded(i, ws, k, hoursPerWorker, wageRate, iM, pM, pay) ==
    IF k > Len(ws) THEN [err |-> FALSE, indMoney |-> iM, perMoney |-> pM,
                         payments |-> pay]
    ELSE LET wages == hoursPerWorker * wageRate
         IN IF iM[i] < wages
            THEN [err |-> TRUE, indMoney |-> iM, perMoney |-> pM, payments |-> <<>>]
            ELSE PayWhileFunded(i, ws, k + 1, hoursPerWorker, wageRate,
                     [iM EXCEPT ![i] = @ - wages],
                     [pM EXCEPT ![ws[k]] = @ + wages],
                     Append(pay, [PersonName |-> personName[ws[k]],
                                  Industry |-> i,
                                  HoursWorked |-> hoursPerWorker,
                                  WageRate |-> wageRate, TotalPaid |-> wages]))

PayWorkersUnchecked(i, ws, hoursPerWorker, wageRate, iM, pM) ==
    PayWhileFunded(i, ws, 1, hoursPerWorker, wageRate, iM, pM, <<>>)

\* PayWorkers: the whole bill is checked against the industry's money
\* before any worker is paid.
PayWorkers(i, ws, hoursPerWorker, wageRate, iM, pM) ==
    LET wages == hoursPerWorker * wageRate
        totalWages == Len(ws) * wages
    IN IF iM[i] < totalWages
       THEN [err |-> TRUE, indMoney |-> iM, perMoney |-> pM, payments |-> <<>>]
       ELSE PayLoop(i, ws, 1, hoursPerWorker, wageRate, iM, pM, <<>>)

\* ---------------------------------------- production/calculator.go
\* calculateResourceCost: unitsProduced per non-free input, 0 per free one.
RECURSIVE calculateResourceCost(_, _, _)
calculateResourceCost(ins, k, unitsProduced) ==
    IF k > Len(ins) THEN 0
    ELSE unitsProduced * (IF isFree[ins[k]] THEN 0 ELSE 1)
         + calculateResourceCost(ins, k + 1, unitsProduced)

\* CalculateProduction without the cap of the labor used at laborNeeded
CalculateProductionNoCap(i, availableLabor, availableHours, wageRate) ==
    LET ln == laborNeeded[i]
        laborUsed == availableLabor
        units == IF ln = 0 THEN 0 ELSE (laborUsed * availableHours) \div ln
        laborCost == (laborUsed * wageRate * availableHours) \div LaborScale
        resourceCost == calculateResourceCost(inputs[i], 1, units)
        totalCost == laborCost + resourceCost
    IN [UnitsProduced |-> units, LaborUsed |-> laborUsed,
        LaborCost |-> laborCost, ResourceCost |-> resourceCost,
        TotalCost |-> totalCost,
        CostPerUnit |-> IF units > 0 THEN totalCost \div units ELSE 0]

\* CalculateProduction that takes the labor needed for the labor used
CalculateProductionFullLabor(i, availableLabor, availableHours, wageRate) ==
    LET ln == laborNeeded[i]
        laborUsed == ln
        units == IF ln = 0 THEN 0 ELSE (laborUsed * availableHours) \div ln
        laborCost == (laborUsed * wageRate * availableHours) \div LaborScale
        resourceCost == calculateResourceCost(inputs[i], 1, units)
        totalCost == laborCost + resourceCost
    IN [UnitsProduced |-> units, LaborUsed |-> laborUsed,
        LaborCost |-> laborCost, ResourceCost |-> resourceCost,
        TotalCost |-> totalCost,
        CostPerUnit |-> IF units > 0 THEN totalCost \div units ELSE 0]

\* CalculateProduction.  ln and availableLabor are in units of 1/LaborScale.
CalculateProduction(i, availableLabor, availableHours, wageRate) ==
    LET ln == laborNeeded[i]
        laborUsed == Min(availableLabor, ln)
        units == IF ln = 0 THEN 0 ELSE (laborUsed * availableHours) \div ln
        laborCost == (laborUsed * wageRate * availableHours) \div LaborScale
        resourceCost == calculateResourceCost(inputs[i], 1, units)
        totalCost == laborCost + resourceCost
    IN [UnitsProduced |-> units, LaborUsed |-> laborUsed,
        LaborCost |-> laborCost, ResourceCost |-> resourceCost,
        TotalCost |-> totalCost,
        CostPerUnit |-> IF units > 0 THEN totalCost \div units ELSE 0]

\* ------------------------------------- calculator.go in float32
\* A float32 value >= 0 in the normal range: zero, or m * 2^e with a
\* 24-bit significand 2^23 <= m < 2^24.  Every operation rounds to the
\* nearest value, ties to the even significand, as the Go float32
\* operators do.
Two12 == 4096
Two23 == 8388608
Two24 == 16777216
F32Zero == [m |-> 0, e |-> 0]

\* float32(n) for an integer 0 <= n < 2^24, scaled by 2^e: exact
RECURSIVE F32Norm(_, _)
F32Norm(n, e) ==
    IF n = 0 THEN F32Zero
    ELSE IF n < Two23 THEN F32Norm(2 * n, e - 1)
    ELSE [m |-> n, e |-> e]

\* The significand m with a discarded remainder rem out of unit: up when
\* the remainder is above the half, to even at the half
F32Round(m, e, rem, unit) ==
    LET up == 2 * rem > unit \/ (2 * rem = unit /\ m % 2 = 1)
        r == IF up THEN m + 1 ELSE m
    IN IF r = Two24 THEN [m |-> Two23, e |-> e + 1] ELSE [m |-> r, e |-> e]

\* a * b: the 48-bit product of the significands, from 12-bit halves
F32Mul(a, b) ==
    IF a.m = 0 \/ b.m = 0 THEN F32Zero
    ELSE LET a1 == a.m \div Two12
             a0 == a.m % Two12
             b1 == b.m \div Two12
             b0 == b.m % Two12
             mid == a1 * b0 + a0 * b1
             lowsum == a0 * b0 + (mid % Two12) * Two12
             lo == lowsum % Two24
             hi == a1 * b1 + (mid \div Two12) + (lowsum \div Two24)
         IN IF hi >= Two23
            THEN F32Round(hi, a.e + b.e + 24, lo, Two24)
            ELSE F32Round(2 * hi + (lo \div Two23), a.e + b.e + 23,
                          lo % Two23, Two23)

\* Long division: the next `bits` quotient bits of r / d, with r < 2 d
RECURSIVE F32DivBits(_, _, _, _)
F32DivBits(r, d, bits, q) ==
    IF bits = 0 THEN [q |-> q, r |-> r]
    ELSE IF r >= d THEN F32DivBits(2 * (r - d), d, bits - 1, 2 * q + 1)
    ELSE F32DivBits(2 * r, d, bits - 1, 2 * q)

\* a / b that drops the bits below the last one
F32DivTruncated(a, b) ==
    IF a.m = 0 THEN F32Zero
    ELSE LET first == IF a.m >= b.m THEN a.m ELSE 2 * a.m
             e == IF a.m >= b.m THEN a.e - b.e - 23 ELSE a.e - b.e - 24
             d == F32DivBits(first, b.m, 24, 0)
         IN [m |-> d.q, e |-> e]

\* a / b for b > 0: 24 quotient bits, rounded by the remainder
F32Div(a, b) ==
    IF a.m = 0 THEN F32Zero
    ELSE LET first == IF a.m >= b.m THEN a.m ELSE 2 * a.m
             e == IF a.m >= b.m THEN a.e - b.e - 23 ELSE a.e - b.e - 24
             d == F32DivBits(first, b.m, 24, 0)
         IN F32Round(d.q, e, d.r \div 2, b.m)

\* n shifted right by k bits, the lowest bit kept set when a set bit is
\* shifted out
RECURSIVE F32ShiftSticky(_, _)
F32ShiftSticky(n, k) ==
    IF k = 0 \/ n <= 1 THEN n
    ELSE F32ShiftSticky((n \div 2) + (IF n % 2 = 1 /\ (n \div 2) % 2 = 0
                                      THEN 1 ELSE 0), k - 1)

\* a + b, with three extra bits under the significands
F32Add(a, b) ==
    IF a.m = 0 THEN b
    ELSE IF b.m = 0 THEN a
    ELSE LET big == IF a.e >= b.e THEN a ELSE b
             small == IF a.e >= b.e THEN b ELSE a
             sum == 8 * big.m + F32ShiftSticky(8 * small.m, big.e - small.e)
         IN IF sum >= 8 * Two24
            THEN F32Round(sum \div 16, big.e + 1, sum % 16, 16)
            ELSE F32Round(sum \div 8, big.e, sum % 8, 8)

\* a < b
F32Less(a, b) ==
    IF b.m = 0 THEN FALSE
    ELSE IF a.m = 0 THEN TRUE
    ELSE a.e < b.e \/ (a.e = b.e /\ a.m < b.m)

\* min(a, b) of calculator.go
F32Min(a, b) == IF F32Less(a, b) THEN a ELSE b

\* calculateResourceCost in float32: totalCost += unitsNeeded * costPerUnit
RECURSIVE calculateResourceCost32(_, _, _, _)
calculateResourceCost32(ins, k, unitsProduced, totalCost) ==
    IF k > Len(ins) THEN totalCost
    ELSE calculateResourceCost32(ins, k + 1, unitsProduced,
             F32Add(totalCost,
                    F32Mul(unitsProduced,
                           IF isFree[ins[k]] THEN F32Zero ELSE F32Norm(1, 0))))

\* CalculateProduction32 whose cost per unit is rounded down
CalculateProduction32Truncated(i, availableLabor, availableHours, wageRate) ==
    LET ln == F32Div(F32Norm(laborNeeded[i], 0), F32Norm(LaborScale, 0))
        laborUsed == F32Min(F32Div(F32Norm(availableLabor, 0),
                                   F32Norm(LaborScale, 0)), ln)
        hours == F32Norm(availableHours, 0)
        productionRate == IF ln.m = 0 THEN F32Zero ELSE F32Div(laborUsed, ln)
        units == F32Mul(productionRate, hours)
        laborCost == F32Mul(F32Mul(laborUsed, F32Norm(wageRate, 0)), hours)
        resourceCost == calculateResourceCost32(inputs[i], 1, units, F32Zero)
        totalCost == F32Add(laborCost, resourceCost)
    IN [UnitsProduced |-> units, LaborUsed |-> laborUsed,
        LaborCost |-> laborCost, ResourceCost |-> resourceCost,
        TotalCost |-> totalCost,
        CostPerUnit |-> IF units.m > 0 THEN F32DivTruncated(totalCost, units)
                        ELSE F32Zero]

\* CalculateProduction with the float32 arithmetic of the source.
\* industry.LaborNeeded and availableLabor are given in units of
\* 1/LaborScale, the hours and the wage rate as integers.
CalculateProduction32(i, availableLabor, availableHours, wageRate) ==
    LET ln == F32Div(F32Norm(laborNeeded[i], 0), F32Norm(LaborScale, 0))
        laborUsed == F32Min(F32Div(F32Norm(availableLabor, 0),
                                   F32Norm(LaborScale, 0)), ln)
        hours == F32Norm(availableHours, 0)
        productionRate == IF ln.m = 0 THEN F32Zero ELSE F32Div(laborUsed, ln)
        units == F32Mul(productionRate, hours)
        laborCost == F32Mul(F32Mul(laborUsed, F32Norm(wageRate, 0)), hours)
        resourceCost == calculateResourceCost32(inputs[i], 1, units, F32Zero)
        totalCost == F32Add(laborCost, resourceCost)
    IN [UnitsProduced |-> units, LaborUsed |-> laborUsed,
        LaborCost |-> laborCost, ResourceCost |-> resourceCost,
        TotalCost |-> totalCost,
        CostPerUnit |-> IF units.m > 0 THEN F32Div(totalCost, units)
                        ELSE F32Zero]

\* ----------------------------------------- production/resources.go
\* ConsumeResources that takes what is left of a short input
RECURSIVE ConsumeResourcesDrain(_, _, _, _, _)
ConsumeResourcesDrain(ins, k, unitsToProdu, q, cons) ==
    IF k > Len(ins) THEN [err |-> FALSE, qty |-> q, consumptions |-> cons,
                          insufficient |-> <<>>]
    ELSE IF q[ins[k]] < unitsToProdu
         THEN [err |-> TRUE, qty |-> [q EXCEPT ![ins[k]] = 0],
               consumptions |-> <<>>,
               insufficient |-> <<ins[k], unitsToProdu, q[ins[k]]>>]
         ELSE ConsumeResourcesDrain(ins, k + 1, unitsToProdu,
                  [q EXCEPT ![ins[k]] = @ - unitsToProdu],
                  Append(cons, [Resource |-> ins[k], Quantity |-> unitsToProdu,
                                Cost |-> unitsToProdu *
                                    (IF isFree[ins[k]] THEN 0 ELSE 1)]))

\* ConsumeResources that decrements without the quantity check
RECURSIVE ConsumeResourcesUnchecked(_, _, _, _, _)
ConsumeResourcesUnchecked(ins, k, unitsToProdu, q, cons) ==
    IF k > Len(ins) THEN [err |-> FALSE, qty |-> q, consumptions |-> cons,
                          insufficient |-> <<>>]
    ELSE ConsumeResourcesUnchecked(ins, k + 1, unitsToProdu,
             [q EXCEPT ![ins[k]] = @ - unitsToProdu],
             Append(cons, [Resource |-> ins[k], Quantity |-> unitsToProdu,
                           Cost |-> unitsToProdu *
                               (IF isFree[ins[k]] THEN 0 ELSE 1)]))

\* ConsumeResources that charges free inputs like the others
RECURSIVE ConsumeResourcesChargeFree(_, _, _, _, _)
ConsumeResourcesChargeFree(ins, k, unitsToProdu, q, cons) ==
    IF k > Len(ins) THEN [err |-> FALSE, qty |-> q, consumptions |-> cons,
                          insufficient |-> <<>>]
    ELSE IF q[ins[k]] < unitsToProdu
         THEN [err |-> TRUE, qty |-> q, consumptions |-> <<>>,
               insufficient |-> <<ins[k], unitsToProdu, q[ins[k]]>>]
         ELSE ConsumeResourcesChargeFree(ins, k + 1, unitsToProdu,
                  [q EXCEPT ![ins[k]] = @ - unitsToProdu],
                  Append(cons, [Resource |-> ins[k], Quantity |-> unitsToProdu,
                                Cost |-> unitsToProdu]))

\* ConsumeResources: inputs are checked and consumed one after another;
\* the first short input returns the error "insufficient <name>: need
\* <units>, have <quantity>", with the earlier inputs already decremented.
RECURSIVE ConsumeResources(_, _, _, _, _)
ConsumeResources(ins, k, unitsToProdu, q, cons) ==
    IF k > Len(ins) THEN [err |-> FALSE, qty |-> q, consumptions |-> cons,
                          insufficient |-> <<>>]
    ELSE IF q[ins[k]] < unitsToProdu
         THEN [err |-> TRUE, qty |-> q, consumptions |-> <<>>,
               insufficient |-> <<ins[k], unitsToProdu, q[ins[k]]>>]
         ELSE ConsumeResources(ins, k + 1, unitsToProdu,
                  [q EXCEPT ![ins[k]] = @ - unitsToProdu],
                  Append(cons, [Resource |-> ins[k], Quantity |-> unitsToProdu,
                                Cost |-> unitsToProdu *
                                    (IF isFree[ins[k]] THEN 0 ELSE 1)]))

\* RegenerateResources that adds the rate twice
RegenerateResourcesTwice(q) ==
    [r \in DOMAIN q |-> IF regenRate[r] > 0 THEN q[r] + regenRate[r] + regenRate[r]
                        ELSE q[r]]

\* RegenerateResources over Region.Resources
RegenerateResources(q) ==
    [r \in DOMAIN q |-> IF regenRate[r] > 0 THEN q[r] + regenRate[r] ELSE q[r]]

\* ------------------------------------------------- core engine
\* The first person of Region.People with the given name (refund loop's
\* inner scan, which breaks at the first match).
FirstNamed(name) ==
    CHOOSE p \in People :
        /\ personName[p] = name
        /\ \A o \in People : personName[o] = name => p <= o

\* The refund loop without `industry.Money += payment.TotalPaid`
RECURSIVE RefundNoCredit(_, _, _, _, _)
RefundNoCredit(i, pay, k, iM, pM) ==
    IF k > Len(pay) THEN [indMoney |-> iM, perMoney |-> pM]
    ELSE LET p == FirstNamed(pay[k].PersonName)
         IN RefundNoCredit(i, pay, k + 1, iM,
                           [pM EXCEPT ![p] = @ - pay[k].TotalPaid])

\* The refund loop of processProductionPhase: every payment is taken back
\* from the first person carrying the payment's PersonName.
RECURSIVE Refund(_, _, _, _, _)
Refund(i, pay, k, iM, pM) ==
    IF k > Len(pay) THEN [indMoney |-> iM, perMoney |-> pM]
    ELSE LET p == FirstNamed(pay[k].PersonName)
         IN Refund(i, pay, k + 1,
                   [iM EXCEPT ![i] = @ + pay[k].TotalPaid],
                   [pM EXCEPT ![p] = @ - pay[k].TotalPaid])

\* RecordProduction that keeps the first records and drops the newest
RecordProductionKeepOldest(h, record) ==
    LET a == Append(h, record)
    IN IF Len(a) > HistoryCap THEN Take(a, HistoryCap) ELSE a

\* Industry.RecordProduction: append, then drop the oldest above the cap.
RecordProduction(h, record) ==
    LET a == Append(h, record)
    IN IF Len(a) > HistoryCap THEN Drop(a, 1) ELSE a

\* getAvailableWorkers: the people that carry a segment named like the
\* first region segment called "Workers", in Region.People order.
RECURSIVE PeopleInSegment(_, _)
PeopleInSegment(name, p) ==
    IF p > NumPeople THEN <<>>
    ELSE (IF \E k \in DOMAIN personSegs[p] : segName[personSegs[p][k]] = name
          THEN <<p>> ELSE <<>>) \o PeopleInSegment(name, p + 1)

\* getAvailableWorkers without the `break` of the segment loop: one pass
\* over the people for every region segment named "Workers"
RECURSIVE WorkersOfEverySegment(_)
WorkersOfEverySegment(k) ==
    IF k > Len(regionSegs) THEN <<>>
    ELSE (IF segName[regionSegs[k]] = "Workers"
          THEN PeopleInSegment("Workers", 1) ELSE <<>>)
         \o WorkersOfEverySegment(k + 1)

getAvailableWorkersNoBreak == WorkersOfEverySegment(1)

getAvailableWorkers ==
    IF \E k \in DOMAIN regionSegs : segName[regionSegs[k]] = "Workers"
    THEN PeopleInSegment("Workers", 1)
    ELSE <<>>

\* ------------------------------------------------- product market
\* Person.GetAllProblems builds a map from problem name to problem over
\* the person's segments (a later problem of the same name replaces an
\* earlier one) and returns the map's values.
RECURSIVE Flatten(_, _)
Flatten(segs, k) ==
    IF k > Len(segs) THEN <<>>
    ELSE segProblems[segs[k]] \o Flatten(segs, k + 1)

\* GetAllProblems keyed by problem instead of problem name
ProblemSetByPointer(p) == Range(Flatten(personSegs[p], 1))

ProblemSet(p) ==
    LET all == Flatten(personSegs[p], 1)
    IN { all[k] : k \in { j \in DOMAIN all :
                 \A l \in DOMAIN all : probName[all[l]] = probName[all[j]]
                                         => l <= j } }

Perms(S) ==
    { s \in [1..Cardinality(S) -> S] : \A x \in S : \E k \in DOMAIN s : s[k] = x }

\* Go ranges over a map in an unspecified order: GetAllProblems may return
\* the person's problems in any order.
GetAllProblems(p) == Perms(ProblemSet(p))

\* findIndustryForProblem returning the last owner instead of the first
findLastIndustryForProblem(need) ==
    LET owners == { i \in Industries : need \in Range(owned[i]) }
    IN IF owners = {} THEN 0
       ELSE CHOOSE i \in owners : \A j \in owners : i >= j

\* findIndustryForProblem: the first industry, in Region order, that owns
\* the problem (compared by ID); 0 stands for nil.
findIndustryForProblem(need) ==
    LET owners == { i \in Industries : need \in Range(owned[i]) }
    IN IF owners = {} THEN 0
       ELSE CHOOSE i \in owners : \A j \in owners : i <= j

\* attemptPurchase without the stock check: the money moves even when
\* product.Consume refuses.
attemptPurchaseNoStockCheck(p, i, need, pricePerUnit, iM, pM, q) ==
    LET none == [ok |-> FALSE, indMoney |-> iM, perMoney |-> pM, qty |-> q,
                 purchase |-> <<>>]
    IN IF Len(outputs[i]) = 0 THEN none
       ELSE LET product == outputs[i][1]
                quantity == 1
                cost == pricePerUnit * quantity
            IN IF pM[p] < pricePerUnit THEN none
               ELSE [ok |-> TRUE,
                     indMoney |-> [iM EXCEPT ![i] = @ + cost],
                     perMoney |-> [pM EXCEPT ![p] = @ - cost],
                     qty |-> [q EXCEPT ![product] =
                                 IF @ >= quantity THEN @ - quantity ELSE @],
                     purchase |-> [Person |-> p, Industry |-> i,
                                   Product |-> product, Problem |-> need,
                                   Quantity |-> quantity,
                                   UnitPrice |-> pricePerUnit,
                                   TotalCost |-> cost]]

\* attemptPurchase that leaves the product on the shelf: no
\* product.Consume(quantity)
attemptPurchaseNoConsume(p, i, need, pricePerUnit, iM, pM, q) ==
    LET none == [ok |-> FALSE, indMoney |-> iM, perMoney |-> pM, qty |-> q,
                 purchase |-> <<>>]
    IN IF Len(outputs[i]) = 0 THEN none
       ELSE LET product == outputs[i][1]
                quantity == 1
                cost == pricePerUnit * quantity
            IN IF q[product] < 1 THEN none
               ELSE IF pM[p] < pricePerUnit THEN none
               ELSE [ok |-> TRUE,
                     indMoney |-> [iM EXCEPT ![i] = @ + cost],
                     perMoney |-> [pM EXCEPT ![p] = @ - cost],
                     qty |-> q,
                     purchase |-> [Person |-> p, Industry |-> i,
                                   Product |-> product, Problem |-> need,
                                   Quantity |-> quantity,
                                   UnitPrice |-> pricePerUnit,
                                   TotalCost |-> cost]]

\* attemptPurchase: one unit of the industry's first output product.
attemptPurchase(p, i, need, pricePerUnit, iM, pM, q) ==
    LET none == [ok |-> FALSE, indMoney |-> iM, perMoney |-> pM, qty |-> q,
                 purchase |-> <<>>]
    IN IF Len(outputs[i]) = 0 THEN none
       ELSE LET product == outputs[i][1]
                quantity == 1
                cost == pricePerUnit * quantity
            IN IF q[product] < 1 THEN none
               ELSE IF pM[p] < pricePerUnit THEN none
               ELSE [ok |-> TRUE,
                     indMoney |-> [iM EXCEPT ![i] = @ + cost],
                     perMoney |-> [pM EXCEPT ![p] = @ - cost],
                     qty |-> [q EXCEPT ![product] =
                                 IF @ >= quantity THEN @ - quantity ELSE @],
                     purchase |-> [Person |-> p, Industry |-> i,
                                   Product |-> product, Problem |-> need,
                                   Quantity |-> quantity,
                                   UnitPrice |-> pricePerUnit,
                                   TotalCost |-> cost]]

\* The inner loop body that goes on to the last owner of the problem when
\* the purchase from the first owner fails
ServeNeedNextOwner(p, need, pricePerUnit, iM, pM, q) ==
    LET i == findIndustryForProblem(need)
        j == findLastIndustryForProblem(need)
    IN IF i = 0
       THEN [ok |-> FALSE, indMoney |-> iM, perMoney |-> pM, qty |-> q,
             purchase |-> <<>>]
       ELSE LET r == attemptPurchase(p, i, need, pricePerUnit, iM, pM, q)
            IN IF r.ok THEN r
               ELSE attemptPurchase(p, j, need, pricePerUnit, iM, pM, q)

\* The body of ProcessProductMarket's inner loop for one need: the industry
\* is looked up, and skipped when there is none.
ServeNeed(p, need, pricePerUnit, iM, pM, q) ==
    LET i == findIndustryForProblem(need)
    IN IF i = 0
       THEN [ok |-> FALSE, indMoney |-> iM, perMoney |-> pM, qty |-> q,
             purchase |-> <<>>]
       ELSE attemptPurchase(p, i, need, pricePerUnit, iM, pM, q)

\* ProcessProductMarket's inner loop over one person's needs, in the order
\* the needs were returned.
RECURSIVE ServeAll(_, _, _, _, _, _, _)
ServeAll(p, order, k, iM, pM, q, bought) ==
    IF k > Len(order)
    THEN [indMoney |-> iM, perMoney |-> pM, qty |-> q, purchases |-> bought]
    ELSE LET r == ServeNeed(p, order[k], PricePerUnit, iM, pM, q)
         IN ServeAll(p, order, k + 1, r.indMoney, r.perMoney, r.qty,
                     IF r.ok THEN Append(bought, r.purchase) ELSE bought)

\* ------------------------------------------------------- scenarios
\* Person.Name as the builder writes it ("Person-%d")
BuilderName == [p \in People |-> <<"Person", p>>]
\* Names are not checked for uniqueness: either all distinct, or the second
\* person carries the first person's name.
NameChoices ==
    { BuilderName, [p \in People |-> IF p = 2 THEN <<"Person", 1>> ELSE <<"Person", p>>] }

\* People are created segment by segment: workers, then people that are
\* both workers and consumers, then consumers only.
SegPattern(a, b) ==
    [p \in People |-> IF p <= a THEN <<1>> ELSE IF p <= b THEN <<1, 2>> ELSE <<2>>]
SegChoices == { SegPattern(1, b) : b \in {NumPeople - 1, NumPeople} }

\* LaborNeeded 0, 0.5, 1 and 2.5, in units of 1/LaborScale
LaborNeededSet == {0, 1, 2, 5}
\* Initial capital: one or two workers' wages for a tick
CapitalSet == {WagePerWorker, 2 * WagePerWorker}
PersonMoneySet == {PricePerUnit}
OreSet == {100, 400}
LandRegenSet == {0, 10}

NoResult == [UnitsProduced |-> 0, LaborUsed |-> 0, LaborCost |-> 0,
             ResourceCost |-> 0, TotalCost |-> 0, CostPerUnit |-> 0]
\* No configuration: the region was set up programmatically
NoConfig == <<>>

\* No earlier run to compare with
NoTwin == [done |-> FALSE]
NoMarket == [TotalSpent |-> 0, TotalRevenue |-> 0,
             PeopleSatisfied |-> 0, PeopleUnsatisfied |-> 0]

Init ==
    /\ personName \in NameChoices
    /\ personSegs \in SegChoices
    /\ laborNeeded \in [Industries -> LaborNeededSet]
    /\ inputs = [i \in Industries |-> IF i = 1 THEN <<1, 2>> ELSE <<2>>]
    /\ isFree = [r \in Resources |-> r = 1]
    /\ \E g \in LandRegenSet : regenRate = [r \in Resources |-> IF r = 1 THEN g ELSE 0]
    /\ \E c \in CapitalSet : indMoney = [i \in Industries |-> c]
    /\ \E m \in PersonMoneySet : perMoney = [p \in People |-> m]
    /\ \E o \in OreSet : qty = [r \in Resources |->
                                  IF r = 1 THEN 200 ELSE IF r = 2 THEN o ELSE 0]
    /\ history = [i \in Industries |-> <<>>]
    /\ laborHours = [p \in People |-> StandardLaborHours]
    /\ calcArgs = <<>>
    /\ config = NoConfig
    /\ regionSegs = <<1, 2>>
    \* NewEngineWithParams
    /\ params = <<WagePerHour, WeeksPerTick, HoursPerWeek>>
    /\ enabled = TRUE
    /\ twin = NoTwin
    /\ currentTick = 0
    /\ initialWealth = TotalWealth(indMoney, perMoney)
    /\ pc = "idle"
    /\ runN = 0 /\ runI = 0 /\ ticksDone = 0
    /\ indIdx = 0
    /\ availableWorkers = <<>>
    /\ allocations = [i \in Industries |-> <<>>]
    /\ workers = <<>>
    /\ result = NoResult
    /\ payments = <<>>
    /\ perIdx = 0
    /\ needs = <<>>
    /\ purchases = <<>>
    /\ satisfied = {}
    /\ market = NoMarket
    /\ events = <<>>
    /\ tickStartQty = qty
    /\ tickStartMoney = perMoney

\* ------------------------------------------------------------ logger
\* Logger.LogEvent and its siblings: nothing when the logger is disabled
LogEvent(log, message) == IF enabled THEN Append(log, message) ELSE log

\* ------------------------------------------------------------ Run
\* Engine.Run(ticks): entry
Run(n) ==
    /\ pc = "idle"
    /\ runN' = n
    /\ runI' = 0
    /\ pc' = "loop"
    /\ UNCHANGED <<static, region, engine, ticksDone, prodLocals, marketLocals,
                   logged>>

\* Run's loop exit and printFinalSummary (read-only)
RunEnd ==
    /\ pc = "loop"
    /\ runI >= runN
    /\ pc' = "idle"
    /\ UNCHANGED <<static, region, engine, control, prodLocals, marketLocals,
                   logged>>

\* One iteration of Run's loop up to the first industry of
\* processProductionPhase: e.CurrentTick = i + 1, LogTick, the pool is
\* built.
TickBegin ==
    /\ pc = "loop"
    /\ runI < runN
    /\ currentTick' = runI + 1
    /\ events' = <<>>
    /\ tickStartQty' = qty
    /\ tickStartMoney' = perMoney
    /\ availableWorkers' = getAvailableWorkers
    /\ allocations' = [i \in Industries |-> <<>>]
    /\ indIdx' = 1
    /\ pc' = "alloc"
    /\ UNCHANGED <<static, region, initialWealth, control, workers, result,
                   payments, marketLocals>>

\* `break` in place of `continue`: the production phase ends with the
\* current industry.
NextIndustryBreak ==
    /\ indIdx' = indIdx
    /\ pc' = "person"
    /\ perIdx' = 1
    /\ needs' = <<>>
    /\ purchases' = <<>>
    /\ satisfied' = {}
    /\ market' = NoMarket

\* `continue` or the end of the loop body: the next industry, or, after the
\* last one, processProductMarket with an empty MarketResult.
NextIndustry ==
    IF indIdx < NumIndustries
    THEN /\ indIdx' = indIdx + 1
         /\ pc' = "alloc"
         /\ UNCHANGED marketLocals
    ELSE /\ indIdx' = indIdx
         /\ pc' = "person"
         /\ perIdx' = 1
         /\ needs' = <<>>
         /\ purchases' = <<>>
         /\ satisfied' = {}
         /\ market' = NoMarket

\* Allocate without the `len(workers) == 0` early continue
AllocateNoIdleSkip ==
    /\ pc = "alloc"
    /\ LET ws == AllocateWorkers(laborNeeded[indIdx], availableWorkers)
       IN /\ workers' = ws
          /\ allocations' = [allocations EXCEPT ![indIdx] = ws]
          /\ events' = LogEvent(events, <<"alloc", indIdx, Len(ws) > 0>>)
          /\ result' = CalculateProduction(indIdx, Len(ws) * LaborScale,
                                           HoursAvailable, WagePerHour)
          /\ pc' = "pay"
          /\ UNCHANGED <<indIdx, marketLocals>>
    /\ UNCHANGED <<static, region, engine, control, availableWorkers, payments,
                   tickStart>>

\* processProductionPhase: AllocateWorkers and CalculateProduction
Allocate ==
    /\ pc = "alloc"
    /\ LET ws == AllocateWorkers(laborNeeded[indIdx], availableWorkers)
       IN /\ workers' = ws
          /\ allocations' = [allocations EXCEPT ![indIdx] = ws]
          /\ events' = LogEvent(events, <<"alloc", indIdx, Len(ws) > 0>>)
          /\ IF Len(ws) = 0
             THEN /\ NextIndustry
                  /\ UNCHANGED result
             ELSE /\ result' = CalculateProduction(indIdx, Len(ws) * LaborScale,
                                                  HoursAvailable, WagePerHour)
                  /\ pc' = "pay"
                  /\ UNCHANGED <<indIdx, marketLocals>>
    /\ UNCHANGED <<static, region, engine, control, availableWorkers, payments,
                   tickStart>>

\* Pay that goes on to the resource consumption although PayWorkers failed
PayIgnoreError ==
    /\ pc = "pay"
    /\ LET r == PayWorkers(indIdx, workers, HoursAvailable, WagePerHour,
                           indMoney, perMoney)
       IN /\ indMoney' = r.indMoney
          /\ perMoney' = r.perMoney
          /\ payments' = r.payments
          /\ events' = LogEvent(events, <<"wage", indIdx, ~r.err>>)
          /\ pc' = "consume"
          /\ UNCHANGED <<indIdx, marketLocals>>
    /\ UNCHANGED <<static, qty, history, engine, control, availableWorkers,
                   allocations, workers, result, tickStart>>

\* Pay that goes from a successful wage settlement straight to the output
\* commit, without consuming the inputs
PaySkipConsume ==
    /\ pc = "pay"
    /\ LET r == PayWorkers(indIdx, workers, HoursAvailable, WagePerHour,
                           indMoney, perMoney)
       IN /\ indMoney' = r.indMoney
          /\ perMoney' = r.perMoney
          /\ payments' = r.payments
          /\ events' = LogEvent(events, <<"wage", indIdx, ~r.err>>)
          /\ IF r.err
             THEN NextIndustry
             ELSE /\ pc' = "commit"
                  /\ UNCHANGED <<indIdx, marketLocals>>
    /\ UNCHANGED <<static, qty, history, engine, control, availableWorkers,
                   allocations, workers, result, tickStart>>

\* processProductionPhase: PayWorkers; on error the industry is skipped
Pay ==
    /\ pc = "pay"
    /\ LET r == PayWorkers(indIdx, workers, HoursAvailable, WagePerHour,
                           indMoney, perMoney)
       IN /\ indMoney' = r.indMoney
          /\ perMoney' = r.perMoney
          /\ payments' = r.payments
          /\ events' = LogEvent(events, <<"wage", indIdx, ~r.err>>)
          /\ IF r.err
             THEN NextIndustry
             ELSE /\ pc' = "consume"
                  /\ UNCHANGED <<indIdx, marketLocals>>
    /\ UNCHANGED <<static, qty, history, engine, control, availableWorkers,
                   allocations, workers, result, tickStart>>

\* Consume that commits the output although ConsumeResources failed
ConsumeCommitOnError ==
    /\ pc = "consume"
    /\ LET c == ConsumeResources(inputs[indIdx], 1, result.UnitsProduced, qty, <<>>)
       IN /\ qty' = c.qty
          /\ events' = LogEvent(events, <<"consume", indIdx, ~c.err>>)
          /\ pc' = "commit"
          /\ UNCHANGED <<indMoney, perMoney, indIdx, marketLocals>>
    /\ UNCHANGED <<static, history, engine, control, availableWorkers,
                   allocations, workers, result, payments, tickStart>>

\* Consume that gives up the run when ConsumeResources fails
ConsumeAbortOnError ==
    /\ pc = "consume"
    /\ LET c == ConsumeResources(inputs[indIdx], 1, result.UnitsProduced, qty, <<>>)
       IN /\ qty' = c.qty
          /\ events' = LogEvent(events, <<"consume", indIdx, ~c.err>>)
          /\ IF c.err
             THEN LET f == Refund(indIdx, payments, 1, indMoney, perMoney)
                  IN /\ indMoney' = f.indMoney
                     /\ perMoney' = f.perMoney
                     /\ pc' = "idle"
                     /\ UNCHANGED <<indIdx, marketLocals>>
             ELSE /\ pc' = "commit"
                  /\ UNCHANGED <<indMoney, perMoney, indIdx, marketLocals>>
    /\ UNCHANGED <<static, history, engine, control, availableWorkers,
                   allocations, workers, result, payments, tickStart>>

\* Consume that lets the workers keep their wages when ConsumeResources
\* fails
ConsumeNoRefund ==
    /\ pc = "consume"
    /\ LET c == ConsumeResources(inputs[indIdx], 1, result.UnitsProduced, qty, <<>>)
       IN /\ qty' = c.qty
          /\ events' = LogEvent(events, <<"consume", indIdx, ~c.err>>)
          /\ UNCHANGED <<indMoney, perMoney>>
          /\ IF c.err
             THEN NextIndustry
             ELSE /\ pc' = "commit"
                  /\ UNCHANGED <<indIdx, marketLocals>>
    /\ UNCHANGED <<static, history, engine, control, availableWorkers,
                   allocations, workers, result, payments, tickStart>>

\* processProductionPhase: ConsumeResources; on error the refund loop
Consume ==
    /\ pc = "consume"
    /\ LET c == ConsumeResources(inputs[indIdx], 1, result.UnitsProduced, qty, <<>>)
       IN /\ qty' = c.qty
          /\ events' = LogEvent(events, <<"consume", indIdx, ~c.err>>)
          /\ IF c.err
             THEN LET f == Refund(indIdx, payments, 1, indMoney, perMoney)
                  IN /\ indMoney' = f.indMoney
                     /\ perMoney' = f.perMoney
                     /\ NextIndustry
             ELSE /\ pc' = "commit"
                  /\ UNCHANGED <<indMoney, perMoney, indIdx, marketLocals>>
    /\ UNCHANGED <<static, history, engine, control, availableWorkers,
                   allocations, workers, result, payments, tickStart>>

\* Output commit that shares the units among the output products
RECURSIVE AddOutputsShared(_, _, _, _)
AddOutputsShared(outs, k, units, q) ==
    IF k > Len(outs) THEN q
    ELSE AddOutputsShared(outs, k + 1, units,
                          [q EXCEPT ![outs[k]] = @ + (units \div Len(outs))])

\* product.Add(result.UnitsProduced) for every output product
RECURSIVE AddOutputs(_, _, _, _)
AddOutputs(outs, k, units, q) ==
    IF k > Len(outs) THEN q
    ELSE AddOutputs(outs, k + 1, units, [q EXCEPT ![outs[k]] = @ + units])

\* Commit that leaves the producing industry's workers in the pool
CommitKeepPool ==
    /\ pc = "commit"
    /\ qty' = AddOutputs(outputs[indIdx], 1, result.UnitsProduced, qty)
    /\ history' = [history EXCEPT ![indIdx] =
           RecordProduction(@, [Tick |-> currentTick,
                                UnitsProduced |-> result.UnitsProduced,
                                TotalCost |-> result.TotalCost,
                                CostPerUnit |-> result.CostPerUnit,
                                LaborCost |-> result.LaborCost,
                                ResourceCost |-> result.ResourceCost])]
    /\ availableWorkers' = availableWorkers
    /\ events' = LogEvent(events, <<"commit", indIdx, TRUE>>)
    /\ NextIndustry
    /\ UNCHANGED <<static, indMoney, perMoney, engine, control, allocations,
                   workers, result, payments, tickStart>>

\* processProductionPhase: output commit, history record, pool shrink
Commit ==
    /\ pc = "commit"
    /\ qty' = AddOutputs(outputs[indIdx], 1, result.UnitsProduced, qty)
    /\ history' = [history EXCEPT ![indIdx] =
           RecordProduction(@, [Tick |-> currentTick,
                                UnitsProduced |-> result.UnitsProduced,
                                TotalCost |-> result.TotalCost,
                                CostPerUnit |-> result.CostPerUnit,
                                LaborCost |-> result.LaborCost,
                                ResourceCost |-> result.ResourceCost])]
    /\ availableWorkers' = Drop(availableWorkers, Len(workers))
    /\ events' = LogEvent(events, <<"commit", indIdx, TRUE>>)
    /\ NextIndustry
    /\ UNCHANGED <<static, indMoney, perMoney, engine, control, allocations,
                   workers, result, payments, tickStart>>

\* ----------------------------------------------- ProcessProductMarket
\* The outer loop: needs := person.GetAllProblems()
MarketPerson ==
    /\ pc = "person"
    /\ perIdx <= NumPeople
    /\ \E order \in GetAllProblems(perIdx) :
          /\ needs' = order
          /\ IF order = <<>>
             THEN perIdx' = perIdx + 1 /\ pc' = "person"
             ELSE perIdx' = perIdx /\ pc' = "need"
    /\ UNCHANGED <<static, region, engine, control, prodLocals, purchases,
                   satisfied, market, logged>>

\* The inner loop body for one need: findIndustryForProblem, attemptPurchase
MarketNeed ==
    /\ pc = "need"
    /\ needs # <<>>
    /\ LET r == ServeNeed(perIdx, Head(needs), PricePerUnit,
                          indMoney, perMoney, qty)
       IN /\ indMoney' = r.indMoney
          /\ perMoney' = r.perMoney
          /\ qty' = r.qty
          /\ IF r.ok
             THEN /\ purchases' = Append(purchases, r.purchase)
                  /\ market' = [market EXCEPT
                                   !.TotalSpent = @ + r.purchase.TotalCost,
                                   !.TotalRevenue = @ + r.purchase.TotalCost]
                  /\ satisfied' = satisfied \cup {perIdx}
                  /\ events' = LogEvent(events, <<"purchase", perIdx, TRUE>>)
             ELSE UNCHANGED <<purchases, market, satisfied, events>>
    /\ needs' = Tail(needs)
    /\ IF Tail(needs) = <<>>
       THEN perIdx' = perIdx + 1 /\ pc' = "person"
       ELSE perIdx' = perIdx /\ pc' = "need"
    /\ UNCHANGED <<static, history, engine, control, prodLocals, tickStart>>

\* MarketDone that counts purchases instead of distinct people
MarketDoneCountPurchases ==
    /\ pc = "person"
    /\ perIdx > NumPeople
    /\ market' = [market EXCEPT
                     !.PeopleSatisfied = Len(purchases),
                     !.PeopleUnsatisfied = NumPeople - Len(purchases)]
    /\ events' = LogEvent(events, <<"market", 0, TRUE>>)
    /\ pc' = "regen"
    /\ UNCHANGED <<static, region, engine, control, prodLocals, perIdx, needs,
                   purchases, satisfied, tickStart>>

\* After the last person: the satisfied / unsatisfied counts
MarketDone ==
    /\ pc = "person"
    /\ perIdx > NumPeople
    /\ market' = [market EXCEPT
                     !.PeopleSatisfied = Cardinality(satisfied),
                     !.PeopleUnsatisfied = NumPeople - Cardinality(satisfied)]
    /\ events' = LogEvent(events, <<"market", 0, TRUE>>)
    /\ pc' = "regen"
    /\ UNCHANGED <<static, region, engine, control, prodLocals, perIdx, needs,
                   purchases, satisfied, tickStart>>

\* processResourceRegeneration, the end of processTick and Run's i++
Regenerate ==
    /\ pc = "regen"
    /\ qty' = RegenerateResources(qty)
    /\ runI' = runI + 1
    /\ ticksDone' = ticksDone + 1
    /\ events' = LogEvent(events, <<"regen", 0, TRUE>>)
    /\ pc' = "loop"
    /\ UNCHANGED <<static, indMoney, perMoney, history, engine, runN,
                   prodLocals, marketLocals, tickStart>>

Next ==
    \/ \E n \in 0..(MaxTicks - ticksDone) : Run(n)
    \/ RunEnd
    \/ TickBegin
    \/ Allocate
    \/ Pay
    \/ Consume
    \/ Commit
    \/ MarketPerson
    \/ MarketNeed
    \/ MarketDone
    \/ Regenerate

Spec == Init /\ [][Next]_vars

\* The steps of a run in progress
Step ==
    \/ RunEnd
    \/ TickBegin
    \/ Allocate
    \/ Pay
    \/ Consume
    \/ Commit
    \/ MarketPerson
    \/ MarketNeed
    \/ MarketDone
    \/ Regenerate

\* The state NewEngineWithParams leaves, for a region already chosen
NewEngine ==
    /\ params = <<WagePerHour, WeeksPerTick, HoursPerWeek>>
    /\ enabled = TRUE
    /\ twin = NoTwin
    /\ currentTick = 0
    /\ initialWealth = TotalWealth(indMoney, perMoney)
    /\ pc = "idle"
    /\ runN = 0 /\ runI = 0 /\ ticksDone = 0
    /\ indIdx = 0
    /\ availableWorkers = <<>>
    /\ allocations = [i \in Industries |-> <<>>]
    /\ workers = <<>>
    /\ result = NoResult
    /\ payments = <<>>
    /\ perIdx = 0
    /\ needs = <<>>
    /\ purchases = <<>>
    /\ satisfied = {}
    /\ market = NoMarket
    /\ events = <<>>
    /\ tickStartQty = qty
    /\ tickStartMoney = perMoney

\* The regions of Init with builder names, regenerating land and labor
\* needs of 0 or 2.5
FairInit ==
    /\ Init
    /\ personName = BuilderName
    /\ \A i \in Industries : laborNeeded[i] \in {0, 5}
    /\ \E r \in Resources : regenRate[r] > 0

\* Run is a sequential loop: a run in progress keeps taking steps.
FairSpec == FairInit /\ [][Next]_vars /\ WF_vars(Step)

\* ------------------------------------------------- market/labor.go
\* ExecuteLaborTransaction, called on the region between two runs: the
\* person rents hours to the industry at the given wage.
ExecuteLaborTransaction(p, i, hours, wagePerHour) ==
    /\ pc = "idle"
    /\ LET totalWage == hours * wagePerHour
       IN IF laborHours[p] < hours \/ indMoney[i] < totalWage
          THEN UNCHANGED <<laborHours, perMoney, indMoney>>
          ELSE /\ laborHours' = [laborHours EXCEPT ![p] = @ - hours]
               /\ perMoney' = [perMoney EXCEPT ![p] = @ + totalWage]
               /\ indMoney' = [indMoney EXCEPT ![i] = @ - totalWage]
    /\ UNCHANGED <<personName, personSegs, laborNeeded, inputs, isFree, setup,
                   regenRate, calcArgs, qty, history, engine, pc, control, prodLocals,
                   marketLocals, logged>>

LaborNext ==
    \/ \E p \in People, i \in Industries :
          ExecuteLaborTransaction(p, i, StandardLaborHours, WagePerHour)
    \/ Next

LaborSpec == FairInit /\ [][LaborNext]_vars

\* ------------------------------------- CalculateProduction, called alone
\* Labor needs 0, 0.5, 1, 2.5 and 10; allocated labor 0, 1, 2, 5, 10 and
\* 20; the hours of a week and of a tick.  All in units of 1/LaborScale,
\* and such that laborNeeded divides laborUsed x hours.
CalcLaborNeededSet == LaborNeededSet \cup {10 * LaborScale}
CalcLaborSet == { n * LaborScale : n \in {0, 1, 2, 5, 10, 20} }
CalcHoursSet == {HoursPerWeek, HoursAvailable}

CalcInit ==
    /\ personName = BuilderName
    /\ personSegs = SegPattern(1, NumPeople)
    /\ laborNeeded \in [Industries -> CalcLaborNeededSet]
    /\ inputs = [i \in Industries |-> IF i = 1 THEN <<1, 2>> ELSE <<2>>]
    /\ isFree = [r \in Resources |-> r = 1]
    /\ regenRate = [r \in Resources |-> 0]
    /\ laborHours = [p \in People |-> StandardLaborHours]
    /\ calcArgs = <<>>
    /\ config = NoConfig
    /\ regionSegs = <<1, 2>>
    /\ indMoney = [i \in Industries |-> WagePerWorker]
    /\ perMoney = [p \in People |-> PricePerUnit]
    /\ qty = [r \in Resources |-> 0]
    /\ history = [i \in Industries |-> <<>>]
    /\ NewEngine

\* The previous call and this one: <<"calc", arguments, result>> each
CallLog(log, args, res) ==
    IF log = <<>> THEN << <<"calc", args, res>> >>
    ELSE << log[Len(log)], <<"calc", args, res>> >>

\* A calculator that stores the labor it used in industry.LaborNeeded
CalculateStoreLabor(i, availableLabor, availableHours, wageRate) ==
    /\ calcArgs' = <<i, availableLabor, availableHours, wageRate>>
    /\ result' = CalculateProduction(i, availableLabor, availableHours, wageRate)
    /\ laborNeeded' = [laborNeeded EXCEPT ![i] = result'.LaborUsed]
    /\ events' = CallLog(events, calcArgs', result')
    /\ UNCHANGED <<personName, personSegs, inputs, isFree, setup,
                   regenRate, laborHours, region, engine, pc, control, indIdx,
                   availableWorkers, allocations, workers, payments,
                   marketLocals, tickStart>>

\* result := CalculateProduction(industry, availableLabor, availableHours,
\* wageRate); the call and its result are logged.
Calculate(i, availableLabor, availableHours, wageRate) ==
    /\ calcArgs' = <<i, availableLabor, availableHours, wageRate>>
    /\ result' = CalculateProduction(i, availableLabor, availableHours, wageRate)
    /\ events' = CallLog(events, calcArgs', result')
    /\ UNCHANGED <<personName, personSegs, laborNeeded, inputs, isFree, setup,
                   regenRate, laborHours, region, engine, pc, control, indIdx,
                   availableWorkers, allocations, workers, payments,
                   marketLocals, tickStart>>

CalcNext ==
    \E i \in Industries, a \in CalcLaborSet, h \in CalcHoursSet :
        Calculate(i, a, h, WagePerHour)

CalcSpec == CalcInit /\ [][CalcNext]_vars

\* ----------------------------- CalculateProduction in float32, alone
\* Labor needs 0, 3 and 7, which do not divide the hours.  Inputs: a free
\* and a priced one, or two priced ones.
Calc32LaborNeededSet == {0, 3 * LaborScale, 7 * LaborScale}
Calc32InputsSet == { <<1, 2>>, <<2, 3>> }

Calc32Init ==
    /\ personName = BuilderName
    /\ personSegs = SegPattern(1, NumPeople)
    /\ laborNeeded \in [Industries -> Calc32LaborNeededSet]
    /\ inputs \in [Industries -> Calc32InputsSet]
    /\ isFree = [r \in Resources |-> r = 1]
    /\ regenRate = [r \in Resources |-> 0]
    /\ laborHours = [p \in People |-> StandardLaborHours]
    /\ calcArgs = <<>>
    /\ config = NoConfig
    /\ regionSegs = <<1, 2>>
    /\ indMoney = [i \in Industries |-> WagePerWorker]
    /\ perMoney = [p \in People |-> PricePerUnit]
    /\ qty = [r \in Resources |-> 0]
    /\ history = [i \in Industries |-> <<>>]
    /\ NewEngine

\* result := CalculateProduction(industry, availableLabor, availableHours,
\* wageRate), in float32
Calculate32(i, availableLabor, availableHours, wageRate) ==
    /\ calcArgs' = <<i, availableLabor, availableHours, wageRate>>
    /\ result' = CalculateProduction32(i, availableLabor, availableHours, wageRate)
    /\ UNCHANGED <<personName, personSegs, laborNeeded, inputs, isFree, setup,
                   regenRate, laborHours, region, engine, pc, control, indIdx,
                   availableWorkers, allocations, workers, payments,
                   marketLocals, logged>>

Calc32Next ==
    \E i \in Industries, a \in CalcLaborSet, h \in CalcHoursSet :
        Calculate32(i, a, h, WagePerHour)

Calc32Spec == Calc32Init /\ [][Calc32Next]_vars

\* ------------------------------------------------- resources.go calls
\* Stocks of 5, 50 and 100 units; requests of 10 and 40 units
StockSet == {5, 50, 100}
UnitsSet == {10, 40}

ConsInit ==
    /\ personName = BuilderName
    /\ personSegs = SegPattern(1, NumPeople)
    /\ laborNeeded = [i \in Industries |-> LaborScale]
    /\ inputs = [i \in Industries |-> IF i = 1 THEN <<1, 2>> ELSE <<2>>]
    /\ isFree = [r \in Resources |-> r = 1]
    /\ regenRate = [r \in Resources |-> 0]
    /\ laborHours = [p \in People |-> StandardLaborHours]
    /\ calcArgs = <<>>
    /\ config = NoConfig
    /\ regionSegs = <<1, 2>>
    /\ indMoney = [i \in Industries |-> WagePerWorker]
    /\ perMoney = [p \in People |-> PricePerUnit]
    /\ \E l, o \in StockSet :
          qty = [r \in Resources |-> IF r = 1 THEN l ELSE IF r = 2 THEN o ELSE 0]
    /\ history = [i \in Industries |-> <<>>]
    /\ NewEngine

\* consumptions, err := ConsumeResources(industry, unitsToProduce); the
\* call, the quantities before it and what it returned are logged.
ConsumeInputs(i, unitsToProduce) ==
    LET c == ConsumeResources(inputs[i], 1, unitsToProduce, qty, <<>>)
    IN /\ qty' = c.qty
       /\ events' = << <<"consume", <<i, unitsToProduce, qty>>, c>> >>
       /\ UNCHANGED <<static, indMoney, perMoney, history, engine, pc, control,
                      prodLocals, marketLocals, tickStart>>

ConsNext ==
    \E i \in Industries, u \in UnitsSet : ConsumeInputs(i, u)

ConsSpec == ConsInit /\ [][ConsNext]_vars

\* ------------------------------------------------- scarce products
\* A region whose industries need no labor, so that nothing is produced,
\* with a few units of each product on the shelf and people holding the
\* price of no, one or two units.
ShelfSet == {0, 1, 2}
PurseSet == {0, PricePerUnit, 2 * PricePerUnit}

MarketInit ==
    /\ personName = BuilderName
    /\ personSegs \in SegChoices
    /\ laborNeeded = [i \in Industries |-> 0]
    /\ inputs = [i \in Industries |-> IF i = 1 THEN <<1, 2>> ELSE <<2>>]
    /\ isFree = [r \in Resources |-> r = 1]
    /\ regenRate = [r \in Resources |-> 0]
    /\ laborHours = [p \in People |-> StandardLaborHours]
    /\ calcArgs = <<>>
    /\ config = NoConfig
    /\ regionSegs = <<1, 2>>
    /\ indMoney = [i \in Industries |-> WagePerWorker]
    /\ perMoney \in [People -> PurseSet]
    /\ \E f, m \in ShelfSet :
          qty = [r \in Resources |-> IF r = 3 THEN f ELSE IF r = 4 THEN m ELSE 0]
    /\ history = [i \in Industries |-> <<>>]
    /\ NewEngine

\* Next without the steps that need an allocated worker
MarketNext ==
    \/ \E n \in 0..(MaxTicks - ticksDone) : Run(n)
    \/ RunEnd
    \/ TickBegin
    \/ Allocate
    \/ MarketPerson
    \/ MarketNeed
    \/ MarketDone
    \/ Regenerate

MarketSpec == MarketInit /\ [][MarketNext]_vars

\* ------------------------------------------- getAvailableWorkers alone
\* Region.PopulationSegments: the builder's two segments, only
\* "Consumers", none, or a second segment named "Workers"
RegionSegsSet == { <<1, 2>>, <<2>>, <<>>, <<1, 2, 1>> }
\* Person.Segments: none, one, both in either order, or one added twice
PersonSegsSet == { <<>>, <<1>>, <<2>>, <<1, 2>>, <<2, 1>>, <<1, 1>> }

PoolInit ==
    /\ personName = BuilderName
    /\ personSegs \in [People -> PersonSegsSet]
    /\ laborNeeded = [i \in Industries |-> LaborScale]
    /\ inputs = [i \in Industries |-> IF i = 1 THEN <<1, 2>> ELSE <<2>>]
    /\ isFree = [r \in Resources |-> r = 1]
    /\ regenRate = [r \in Resources |-> 0]
    /\ laborHours = [p \in People |-> StandardLaborHours]
    /\ calcArgs = <<>>
    /\ config = NoConfig
    /\ regionSegs \in RegionSegsSet
    /\ indMoney = [i \in Industries |-> WagePerWorker]
    /\ perMoney = [p \in People |-> PricePerUnit]
    /\ qty = [r \in Resources |-> 0]
    /\ history = [i \in Industries |-> <<>>]
    /\ NewEngine

\* workers := engine.getAvailableWorkers(); the call is logged.
BuildPool ==
    /\ availableWorkers' = getAvailableWorkers
    /\ events' = << <<"pool", 0, TRUE>> >>
    /\ UNCHANGED <<static, region, engine, pc, control, marketLocals,
                   indIdx, allocations, workers, result, payments,
                   tickStart>>

PoolNext == BuildPool

PoolSpec == PoolInit /\ [][PoolNext]_vars

\* ------------------------------------------------- engine creation
\* Money of the industries and of the people of the region an engine is
\* created for
CreateCapitalSet == {3000, 5000}
CreateMoneySet == {100, 200}
\* Parameters handed to NewEngineWithParams
CreateWageSet == {WagePerHour, 15}
CreateWeeksSet == {WeeksPerTick, 1}
CreateHoursSet == {HoursPerWeek, 8}

\* A region, and no engine yet
CreateInit ==
    /\ personName = BuilderName
    /\ personSegs \in SegChoices
    /\ laborNeeded = [i \in Industries |-> LaborScale]
    /\ inputs = [i \in Industries |-> IF i = 1 THEN <<1, 2>> ELSE <<2>>]
    /\ isFree = [r \in Resources |-> r = 1]
    /\ regenRate = [r \in Resources |-> 0]
    /\ laborHours = [p \in People |-> StandardLaborHours]
    /\ calcArgs = <<>>
    /\ config = NoConfig
    /\ regionSegs = <<1, 2>>
    /\ indMoney \in [Industries -> CreateCapitalSet]
    /\ perMoney \in [People -> CreateMoneySet]
    /\ qty = [r \in Resources |-> IF r <= 2 THEN 100 ELSE 0]
    /\ history = [i \in Industries |-> <<>>]
    /\ params = <<>>
    /\ enabled = FALSE
    /\ twin = NoTwin
    /\ currentTick = -1
    /\ initialWealth = -1
    /\ pc = "none"
    /\ runN = 0 /\ runI = 0 /\ ticksDone = 0
    /\ indIdx = 0
    /\ availableWorkers = <<>>
    /\ allocations = [i \in Industries |-> <<>>]
    /\ workers = <<>>
    /\ result = NoResult
    /\ payments = <<>>
    /\ perIdx = 0
    /\ needs = <<>>
    /\ purchases = <<>>
    /\ satisfied = {}
    /\ market = NoMarket
    /\ events = <<>>
    /\ tickStartQty = qty
    /\ tickStartMoney = perMoney

\* The engine whose snapshot counts the industries' money only
NewEngineWithParamsIndustriesOnly(caller, wagePerHour, weeksPerTick, hoursPerWeek) ==
    /\ pc = "none"
    /\ initialWealth' = SumOver(indMoney, DOMAIN indMoney)
    /\ params' = <<wagePerHour, weeksPerTick, hoursPerWeek>>
    /\ enabled' = TRUE
    /\ currentTick' = 0
    /\ pc' = "idle"
    /\ events' = << <<caller, <<wagePerHour, weeksPerTick, hoursPerWeek>>, TRUE>> >>
    /\ UNCHANGED <<personName, personSegs, laborNeeded, inputs, isFree,
                   regenRate, laborHours, calcArgs, regionSegs, twin, config, region,
                   control, prodLocals, marketLocals, tickStart>>

\* NewEngineWithParams: the wealth snapshot, the parameters, an enabled
\* logger and CurrentTick 0; the call is logged with the name of the
\* constructor that was called.
NewEngineWithParams(caller, wagePerHour, weeksPerTick, hoursPerWeek) ==
    /\ pc = "none"
    /\ initialWealth' = TotalWealth(indMoney, perMoney)
    /\ params' = <<wagePerHour, weeksPerTick, hoursPerWeek>>
    /\ enabled' = TRUE
    /\ currentTick' = 0
    /\ pc' = "idle"
    /\ events' = << <<caller, <<wagePerHour, weeksPerTick, hoursPerWeek>>, TRUE>> >>
    /\ UNCHANGED <<personName, personSegs, laborNeeded, inputs, isFree,
                   regenRate, laborHours, calcArgs, regionSegs, twin, config, region,
                   control, prodLocals, marketLocals, tickStart>>

\* CreateNewEngine: NewEngineWithParams(region, 10.0, 4, 40.0)
CreateNewEngine ==
    NewEngineWithParams("CreateNewEngine", WagePerHour, WeeksPerTick, HoursPerWeek)

CreateNext ==
    \/ CreateNewEngine
    \/ \E w \in CreateWageSet, k \in CreateWeeksSet, h \in CreateHoursSet :
          NewEngineWithParams("NewEngineWithParams", w, k, h)

CreateSpec == CreateInit /\ [][CreateNext]_vars

\* ------------------------------------------- config/builder.go
\* Names a configuration may use: "Shelter" is a problem and "Coal" a
\* resource that no configuration defines.
ConfigProblems == <<"Food", "Healthcare">>
ConfigResources == <<"Land", "Ore">>
SolvesSet == { <<"Food">>, <<"Healthcare">>, <<"Shelter">>, <<"Food", "Shelter">> }
InputSet == { <<>>, <<"Ore">>, <<"Land", "Ore">>, <<"Coal">>, <<"Land", "Coal">>,
             <<"Food">> }
OutputSet == { <<"Food">>, <<"Medicine", "Food">> }
HasProblemsSet == { <<"Food">>, <<"Food", "Healthcare">>, <<"Shelter">>,
                    <<"Shelter", "Food">> }

\* RegionConfig: the problems, resources, industries and population
\* segments of a scenario file; references are by name.
ConfigSet ==
    { [Problems |-> ConfigProblems,
       Resources |-> ConfigResources,
       Industries |-> ind,
       Segments |-> << [Name |-> "Workers", HasProblems |-> hp[1]],
                       [Name |-> "Consumers", HasProblems |-> hp[2]] >>] :
        ind \in [Industries -> [SolvesProblems : SolvesSet,
                                InputResources : InputSet,
                                OutputResources : OutputSet]],
        hp \in [1..2 -> HasProblemsSet] }

\* The first name of a list that a lookup map does not hold, or "" when
\* all are known.
RECURSIVE FirstUnknown(_, _, _)
FirstUnknown(names, k, known) ==
    IF k > Len(names) THEN ""
    ELSE IF names[k] \in known THEN FirstUnknown(names, k + 1, known)
    ELSE names[k]

\* The industry loop of BuildRegionFromConfig: the problem names and then
\* the input names of each industry are looked up, the first unknown one
\* ends the build with an error; an output name that is not in the
\* resources map yet is added to it as a new product.
RECURSIVE BuildIndustries(_, _, _, _)
BuildIndustries(c, i, resourcesMap, built) ==
    IF i > Len(c.Industries) THEN [err |-> <<>>, Industries |-> built]
    ELSE LET iConfig == c.Industries[i]
             badProblem == FirstUnknown(iConfig.SolvesProblems, 1, Range(c.Problems))
             badInput == FirstUnknown(iConfig.InputResources, 1, resourcesMap)
         IN IF badProblem # ""
            THEN [err |-> <<"unknown problem", i, badProblem>>, Industries |-> <<>>]
            ELSE IF badInput # ""
            THEN [err |-> <<"unknown input resource", i, badInput>>,
                  Industries |-> <<>>]
            ELSE BuildIndustries(c, i + 1,
                     resourcesMap \cup Range(iConfig.OutputResources),
                     Append(built,
                            [SolvedProblems |-> iConfig.SolvesProblems,
                             InputResources |-> iConfig.InputResources,
                             OutputProducts |-> iConfig.OutputResources]))

\* The segment loop: the names that the problems map holds are kept, the
\* others are left out of the segment's problems.
BuildSegments(c) ==
    [k \in DOMAIN c.Segments |->
        [Name |-> c.Segments[k].Name,
         Problems |-> SelectSeq(c.Segments[k].HasProblems,
                                LAMBDA n : n \in Range(c.Problems))]]

\* BuildRegionFromConfig: (nil, error) from the industry loop, or the
\* region and no error.
BuildRegionFromConfig(c) ==
    LET b == BuildIndustries(c, 1, Range(c.Resources), <<>>)
    IN IF b.err # <<>> THEN [err |-> b.err, region |-> <<>>]
       ELSE [err |-> <<>>,
             region |-> [Industries |-> b.Industries,
                         PopulationSegments |-> BuildSegments(c)]]

\* Position of a resource name in Region order
ResourceIndex(n) ==
    CHOOSE r \in Resources : <<"Land", "Ore", "Food", "Medicine">>[r] = n

\* A configuration, and neither a region nor an engine yet
BuildInit ==
    /\ config \in ConfigSet
    /\ personName = BuilderName
    /\ personSegs = [p \in People |-> <<>>]
    /\ laborNeeded = [i \in Industries |-> 0]
    /\ inputs = [i \in Industries |-> <<>>]
    /\ isFree = [r \in Resources |-> FALSE]
    /\ regenRate = [r \in Resources |-> 0]
    /\ laborHours = [p \in People |-> 0]
    /\ calcArgs = <<>>
    /\ regionSegs = <<>>
    /\ params = <<0, 0, 0>>
    /\ enabled = FALSE
    /\ twin = NoTwin
    /\ indMoney = [i \in Industries |-> 0]
    /\ perMoney = [p \in People |-> 0]
    /\ qty = [r \in Resources |-> 0]
    /\ history = [i \in Industries |-> <<>>]
    /\ currentTick = 0
    /\ initialWealth = -1
    /\ pc = "config"
    /\ runN = 0 /\ runI = 0 /\ ticksDone = 0
    /\ indIdx = 0
    /\ availableWorkers = <<>>
    /\ allocations = [i \in Industries |-> <<>>]
    /\ workers = <<>>
    /\ result = NoResult
    /\ payments = <<>>
    /\ perIdx = 0
    /\ needs = <<>>
    /\ purchases = <<>>
    /\ satisfied = {}
    /\ market = NoMarket
    /\ events = <<>>
    /\ tickStartQty = qty
    /\ tickStartMoney = perMoney

\* runFromConfig: region, err := BuildRegionFromConfig(cfg); an error ends
\* the program, otherwise the region is there for an engine. The call and
\* what it returned are logged.
BuildRegion ==
    /\ pc = "config"
    /\ LET b == BuildRegionFromConfig(config)
       IN /\ events' = << <<"build", b.err, b.region>> >>
          /\ IF b.err # <<>>
             THEN /\ pc' = "failed"
                  /\ UNCHANGED <<personSegs, laborNeeded, inputs, isFree,
                                 laborHours, regionSegs, region, tickStart>>
             ELSE /\ pc' = "none"
                  /\ inputs' = [i \in Industries |->
                        [k \in DOMAIN b.region.Industries[i].InputResources |->
                            ResourceIndex(b.region.Industries[i].InputResources[k])]]
                  /\ laborNeeded' = [i \in Industries |-> LaborScale]
                  /\ isFree' = [r \in Resources |-> r = 1]
                  /\ personSegs' = [p \in People |->
                                      IF p < NumPeople THEN <<1>> ELSE <<2>>]
                  /\ laborHours' = [p \in People |-> StandardLaborHours]
                  /\ regionSegs' = <<1, 2>>
                  /\ indMoney' = [i \in Industries |-> 2 * WagePerWorker]
                  /\ perMoney' = [p \in People |-> PricePerUnit]
                  /\ qty' = [r \in Resources |->
                               IF r = 1 THEN 200 ELSE IF r = 2 THEN 400 ELSE 0]
                  /\ tickStartQty' = qty'
                  /\ tickStartMoney' = perMoney'
                  /\ UNCHANGED history
    /\ UNCHANGED <<personName, regenRate, calcArgs, params, enabled, twin,
                   config, engine, control, prodLocals, marketLocals>>

BuildNext ==
    \/ BuildRegion
    \/ CreateNewEngine
    \/ \E w \in CreateWageSet, k \in CreateWeeksSet, h \in CreateHoursSet :
          NewEngineWithParams("NewEngineWithParams", w, k, h)

BuildSpec == BuildInit /\ [][BuildNext]_vars

\* ------------------------------------------- the same ticks, run twice
\* The regions of Init with builder names, and an engine whose logger is
\* enabled; the region is remembered so that it can be built again.
TwinInit ==
    /\ personName = BuilderName
    /\ personSegs \in SegChoices
    /\ laborNeeded \in [Industries -> LaborNeededSet]
    /\ inputs = [i \in Industries |-> IF i = 1 THEN <<1, 2>> ELSE <<2>>]
    /\ isFree = [r \in Resources |-> r = 1]
    /\ \E g \in LandRegenSet : regenRate = [r \in Resources |-> IF r = 1 THEN g ELSE 0]
    /\ \E c \in CapitalSet : indMoney = [i \in Industries |-> c]
    /\ \E m \in PersonMoneySet : perMoney = [p \in People |-> m]
    /\ \E o \in OreSet : qty = [r \in Resources |->
                                  IF r = 1 THEN 200 ELSE IF r = 2 THEN o ELSE 0]
    /\ history = [i \in Industries |-> <<>>]
    /\ laborHours = [p \in People |-> StandardLaborHours]
    /\ calcArgs = <<>>
    /\ config = NoConfig
    /\ regionSegs = <<1, 2>>
    /\ params = <<WagePerHour, WeeksPerTick, HoursPerWeek>>
    /\ enabled = TRUE
    /\ twin = [done |-> FALSE, start |-> <<indMoney, perMoney, qty>>]
    /\ currentTick = 0
    /\ initialWealth = TotalWealth(indMoney, perMoney)
    /\ pc = "idle"
    /\ runN = 0 /\ runI = 0 /\ ticksDone = 0
    /\ indIdx = 0
    /\ availableWorkers = <<>>
    /\ allocations = [i \in Industries |-> <<>>]
    /\ workers = <<>>
    /\ result = NoResult
    /\ payments = <<>>
    /\ perIdx = 0
    /\ needs = <<>>
    /\ purchases = <<>>
    /\ satisfied = {}
    /\ market = NoMarket
    /\ events = <<>>
    /\ tickStartQty = qty
    /\ tickStartMoney = perMoney

\* One Run call per engine; the second engine runs as many ticks as the
\* first did
TwinRun(n) ==
    /\ ticksDone = 0
    /\ twin.done => n = twin.ticks
    /\ Run(n)

\* The first engine's final state is kept; the identical region is built
\* again and gets an engine whose Logger is NewLogger(false).
SecondEngine ==
    /\ pc = "idle"
    /\ ticksDone > 0
    /\ ~twin.done
    /\ twin' = [done |-> TRUE, start |-> twin.start, ticks |-> ticksDone,
                final |-> <<indMoney, perMoney, qty, history, currentTick>>]
    /\ enabled' = FALSE
    /\ indMoney' = twin.start[1]
    /\ perMoney' = twin.start[2]
    /\ qty' = twin.start[3]
    /\ history' = [i \in Industries |-> <<>>]
    /\ currentTick' = 0
    /\ initialWealth' = TotalWealth(twin.start[1], twin.start[2])
    /\ pc' = "idle"
    /\ runN' = 0 /\ runI' = 0 /\ ticksDone' = 0
    /\ indIdx' = 0
    /\ availableWorkers' = <<>>
    /\ allocations' = [i \in Industries |-> <<>>]
    /\ workers' = <<>>
    /\ result' = NoResult
    /\ payments' = <<>>
    /\ perIdx' = 0
    /\ needs' = <<>>
    /\ purchases' = <<>>
    /\ satisfied' = {}
    /\ market' = NoMarket
    /\ events' = <<>>
    /\ tickStartQty' = twin.start[3]
    /\ tickStartMoney' = twin.start[2]
    /\ UNCHANGED <<personName, personSegs, laborNeeded, inputs, isFree,
                   regenRate, laborHours, calcArgs, regionSegs, params, config>>

TwinNext ==
    \/ \E n \in 1..MaxTicks : TwinRun(n)
    \/ RunEnd
    \/ TickBegin
    \/ Allocate
    \/ Pay
    \/ Consume
    \/ Commit
    \/ MarketPerson
    \/ MarketNeed
    \/ MarketDone
    \/ Regenerate
    \/ SecondEngine

TwinSpec == TwinInit /\ [][TwinNext]_vars

\* ------------------------------------------------ GetAllProblems alone
\* Person.Segments: none, one segment, or two segments of which one lists
\* the second problem named Food
NeedSegsSet == { <<>>, <<1>>, <<2>>, <<3>>, <<1, 3>>, <<3, 1>>, <<2, 3>> }

NeedsInit ==
    /\ personName = BuilderName
    /\ personSegs \in [People -> NeedSegsSet]
    /\ laborNeeded = [i \in Industries |-> LaborScale]
    /\ inputs = [i \in Industries |-> IF i = 1 THEN <<1, 2>> ELSE <<2>>]
    /\ isFree = [r \in Resources |-> r = 1]
    /\ regenRate = [r \in Resources |-> 0]
    /\ laborHours = [p \in People |-> StandardLaborHours]
    /\ calcArgs = <<>>
    /\ config = NoConfig
    /\ regionSegs = <<1, 2, 3>>
    /\ indMoney = [i \in Industries |-> WagePerWorker]
    /\ perMoney = [p \in People |-> PricePerUnit]
    /\ qty = [r \in Resources |-> 0]
    /\ history = [i \in Industries |-> <<>>]
    /\ NewEngine

\* needs := person.GetAllProblems(); the call is logged.
GetNeeds(p) ==
    /\ \E order \in GetAllProblems(p) : needs' = order
    /\ perIdx' = p
    /\ events' = << <<"needs", p, TRUE>> >>
    /\ UNCHANGED <<static, region, engine, pc, control, prodLocals,
                   purchases, satisfied, market, tickStart>>

NeedsNext == \E p \in People : GetNeeds(p)

NeedsSpec == NeedsInit /\ [][NeedsNext]_vars

\* ------------------------------------------------- workers used twice
\* Regions with builder names in which the Ore is enough for 2 workers of
\* an industry needing 2.5 (128 units) and too little for a fully staffed
\* one (160 units), so that an industry can fail on its inputs and a later
\* one produce with the same workers.
ScarceOre == 150

ReuseInit ==
    /\ personName = BuilderName
    /\ personSegs \in SegChoices
    /\ laborNeeded \in [Industries -> {LaborScale, 5}]
    /\ inputs = [i \in Industries |-> IF i = 1 THEN <<1, 2>> ELSE <<2>>]
    /\ isFree = [r \in Resources |-> r = 1]
    /\ \E g \in LandRegenSet : regenRate = [r \in Resources |-> IF r = 1 THEN g ELSE 0]
    /\ \E c \in CapitalSet : indMoney = [i \in Industries |-> c]
    /\ \E m \in PersonMoneySet : perMoney = [p \in People |-> m]
    /\ qty = [r \in Resources |->
                 IF r = 1 THEN 200 ELSE IF r = 2 THEN ScarceOre ELSE 0]
    /\ history = [i \in Industries |-> <<>>]
    /\ laborHours = [p \in People |-> StandardLaborHours]
    /\ calcArgs = <<>>
    /\ config = NoConfig
    /\ regionSegs = <<1, 2>>
    /\ NewEngine

ReuseSpec == ReuseInit /\ [][Next]_vars

\* ------------------------------------------------------- long runs
\* A region funded and stocked for HistTicks ticks of production: every
\* industry needs one worker, and holds the wages of the whole run or only
\* of its first ticks.
HistCapitalSet == { (HistTicks + 1) * WagePerWorker, HistoryCap * WagePerWorker }
HistStock == NumIndustries * (HistTicks + 1) * HoursAvailable

HistInit ==
    /\ personName = BuilderName
    /\ personSegs \in SegChoices
    /\ laborNeeded = [i \in Industries |-> LaborScale]
    /\ inputs = [i \in Industries |-> IF i = 1 THEN <<1, 2>> ELSE <<2>>]
    /\ isFree = [r \in Resources |-> r = 1]
    /\ \E g \in LandRegenSet : regenRate = [r \in Resources |-> IF r = 1 THEN g ELSE 0]
    /\ laborHours = [p \in People |-> StandardLaborHours]
    /\ calcArgs = <<>>
    /\ config = NoConfig
    /\ regionSegs = <<1, 2>>
    /\ \E c \in HistCapitalSet : indMoney = [i \in Industries |-> c]
    /\ \E m \in PersonMoneySet : perMoney = [p \in People |-> m]
    /\ qty = [r \in Resources |-> IF r \in {1, 2} THEN HistStock ELSE 0]
    /\ history = [i \in Industries |-> <<>>]
    /\ NewEngine

HistNext ==
    \/ \E n \in {HistTicks - ticksDone, 1} : n <= HistTicks - ticksDone /\ Run(n)
    \/ Step

HistSpec == HistInit /\ [][HistNext]_vars

\* ================================================================ claims

\* The wage bill of the workers allocated to the current industry
WageBill == Len(workers) * HoursAvailable * WagePerHour

\* An industry that was handed workers in this tick and produced nothing:
\* its wage settlement or its resource consumption failed.
FailedThisTick(i) ==
    /\ allocations[i] # <<>>
    /\ \A k \in DOMAIN history[i] : history[i][k].Tick # currentTick

ProducedThisTick(i) ==
    \E k \in DOMAIN history[i] : history[i][k].Tick = currentTick

\* C1 - Money conservation: after every tick the sum of all industries' and
\* all people's money equals the sum before the tick, hence the
\* initial-wealth snapshot taken at engine creation.
C1_MoneyConservation ==
    pc \in {"loop", "idle"} => TotalWealth(indMoney, perMoney) = initialWealth

\* A finished tick that saw a producing industry, a failed industry and a
\* purchase.
C1_Witness ==
    /\ pc = "loop"
    /\ ticksDone >= 1
    /\ purchases # <<>>
    /\ \E i \in Industries : FailedThisTick(i)
    /\ \E i \in Industries : ProducedThisTick(i)

\* C2 - Non-negativity: every resource quantity, every industry's money and
\* every person's money is >= 0 in every reachable state.
C2_NonNegative ==
    /\ \A r \in Resources : qty[r] >= 0
    /\ \A i \in Industries : indMoney[i] >= 0
    /\ \A p \in People : perMoney[p] >= 0

\* C3 - Wage atomicity: when the industry's money is below the total wage
\* bill, PayWorkers fails (the industry is skipped), returns no payment
\* records and changes nobody's money.
C3_WageAtomicity ==
    [][(pc = "pay" /\ indMoney[indIdx] < WageBill)
        => /\ pc' # "consume"
           /\ payments' = <<>>
           /\ indMoney' = indMoney
           /\ perMoney' = perMoney]_vars

\* The wage settlement of the last industry has just failed: it has two
\* workers, no payments, and money for one wage but not for the bill.
C3_Witness ==
    /\ pc = "person"
    /\ perIdx = 1
    /\ Len(workers) >= 2
    /\ allocations[indIdx] = workers
    /\ payments = <<>>
    /\ indMoney[indIdx] < WageBill
    /\ indMoney[indIdx] >= HoursAvailable * WagePerHour

\* C4 - Atomic resource consumption: when ConsumeResources fails for an
\* industry with two or more inputs, every declared input keeps the
\* quantity it had before the call.
C4_AtomicConsumption ==
    [][(pc = "consume" /\ pc' # "commit" /\ Len(inputs[indIdx]) >= 2)
        => \A r \in Range(inputs[indIdx]) : qty'[r] = qty[r]]_vars

\* C5 - Wage reversal: when resource consumption fails after the workers
\* were paid, the industry and each of its workers get back the money
\* they had immediately before the payment.
C5_WageReversal ==
    [][(pc = "consume" /\ pc' # "commit")
        => /\ indMoney'[indIdx] = indMoney[indIdx] + WageBill
           /\ \A k \in DOMAIN workers :
                 perMoney'[workers[k]] = perMoney[workers[k]] - payments[k].TotalPaid]_vars

\* C6 - Allocated workers leave the pool whatever the industry's outcome,
\* so within one tick no person is allocated to two industries.
C6_NoDoubleAllocation ==
    \A i, j \in Industries :
        i # j => Range(allocations[i]) \cap Range(allocations[j]) = {}

\* C7 - Allocation bound: AllocateWorkers returns the first k people of the
\* current pool, in pool order, with k the smaller of the integer part of
\* laborNeeded and the pool size.
C7_AllocationBound ==
    [][pc = "alloc"
        => LET k == Len(workers')
               ln == laborNeeded[indIdx]
           IN /\ workers' = SubSeq(availableWorkers, 1, k)
              /\ k <= Len(availableWorkers)
              /\ k * LaborScale <= ln
              /\ (k = Len(availableWorkers) \/ (k + 1) * LaborScale > ln)
              /\ (ln = 0 \/ availableWorkers = <<>>) => k = 0]_vars

\* Two workers were allocated for a labor need of 2.5 from a pool of three.
C7_Witness ==
    /\ pc = "pay"
    /\ laborNeeded[indIdx] = 5
    /\ Len(workers) = 2
    /\ Len(availableWorkers) > 2

\* The first industry, in Region order, owning the need (0 when none)
FirstOwner(need) ==
    IF \E i \in Industries : need \in Range(owned[i])
    THEN CHOOSE i \in Industries :
            /\ need \in Range(owned[i])
            /\ \A j \in 1..(i - 1) : need \notin Range(owned[j])
    ELSE 0

\* C8 - Purchase guard and effect: a purchase succeeds only with quantity
\* >= 1 and money >= price; it moves exactly the price from the person to
\* the industry, takes exactly one unit and records quantity 1 at the unit
\* price; a failed attempt changes no state.
C8_PurchaseGuardAndEffect ==
    [][pc = "need"
        => LET p == perIdx
               need == Head(needs)
               i == FirstOwner(need)
               product == outputs[i][1]
           IN IF i # 0 /\ qty[product] >= 1 /\ perMoney[p] >= PricePerUnit
              THEN /\ perMoney' = [perMoney EXCEPT ![p] = @ - PricePerUnit]
                   /\ indMoney' = [indMoney EXCEPT ![i] = @ + PricePerUnit]
                   /\ qty' = [qty EXCEPT ![product] = @ - 1]
                   /\ Len(purchases') = Len(purchases) + 1
                   /\ LET b == purchases'[Len(purchases')]
                      IN /\ b.Person = p /\ b.Industry = i
                         /\ b.Product = product /\ b.Problem = need
                         /\ b.Quantity = 1
                         /\ b.UnitPrice = PricePerUnit
                         /\ b.TotalCost = b.UnitPrice
              ELSE /\ UNCHANGED <<indMoney, perMoney, qty, purchases>>]_vars

\* A market pass in which one attempt succeeded and an earlier person
\* with needs bought nothing.
C8_Witness ==
    /\ pc = "person"
    /\ purchases # <<>>
    /\ \E p \in 1..(perIdx - 1) : p \notin satisfied /\ ProblemSet(p) # {}

\* The (industry, output position) pairs that match a need
Matches(need) ==
    { m \in Industries \X (1..2) :
        /\ need \in Range(owned[m[1]])
        /\ m[2] \in DOMAIN outputs[m[1]] }

C10_Determinism ==
    (pc = "person" /\ perIdx <= NumPeople)
        => \A o1, o2 \in GetAllProblems(perIdx) :
              ServeAll(perIdx, o1, 1, indMoney, perMoney, qty, purchases)
              = ServeAll(perIdx, o2, 1, indMoney, perMoney, qty, purchases)

\* The record the commit step hands to RecordProduction
CommitRecord ==
    [Tick |-> currentTick, UnitsProduced |-> result.UnitsProduced,
     TotalCost |-> result.TotalCost, CostPerUnit |-> result.CostPerUnit,
     LaborCost |-> result.LaborCost, ResourceCost |-> result.ResourceCost]

\* C11 - Bounded production history: a history never holds more than 10
\* records; every commit appends its record at the end, and when that
\* would be an 11th record the oldest one is evicted, so the history is
\* the most recent records in the order they were appended.
C11_BoundedHistory ==
    [][/\ \A i \in Industries : Len(history'[i]) <= HistoryCap
       /\ pc # "commit" => history' = history
       /\ pc = "commit" =>
             LET a == Append(history[indIdx], CommitRecord)
             IN /\ history'[indIdx] = IF Len(a) > HistoryCap THEN Tail(a) ELSE a
                /\ \A j \in Industries : j # indIdx => history'[j] = history[j]]_vars

\* An industry at the cap whose oldest records have been evicted
C11_Witness ==
    \E i \in Industries :
        /\ Len(history[i]) = HistoryCap
        /\ currentTick > HistoryCap
        /\ history[i][1].Tick = currentTick - HistoryCap + 1
        /\ history[i][HistoryCap].Tick = currentTick

\* Positions of the tick's event log holding a given step of a given
\* industry (or person)
EventsOf(step, who) ==
    { k \in DOMAIN events : events[k][1] = step /\ events[k][2] = who }
ProductionSteps == {"alloc", "wage", "consume", "commit"}

\* C12 - Phase ordering within a tick: an industry's wage settlement
\* precedes its resource consumption, which precedes its output commit;
\* every production step precedes the first purchase, and every purchase
\* precedes the regeneration, which is the last step of the tick.
C12_PhaseOrdering ==
    /\ \A i \in Industries :
          /\ \A c \in EventsOf("consume", i) :
                \E w \in EventsOf("wage", i) : w < c /\ events[w][3]
          /\ \A o \in EventsOf("commit", i) :
                \E c \in EventsOf("consume", i) : c < o /\ events[c][3]
    /\ \A a, b \in DOMAIN events :
          /\ (events[a][1] = "purchase" /\ events[b][1] \in ProductionSteps)
                => b < a
          /\ (events[a][1] = "regen" /\ events[b][1] # "regen") => b < a
    /\ pc = "regen" => \A k \in DOMAIN events : events[k][1] # "regen"

\* A finished tick in which an industry was paid, consumed and committed,
\* somebody bought, and the resources were regenerated.
C12_Witness ==
    /\ pc = "loop"
    /\ \E i \in Industries : EventsOf("commit", i) # {}
    /\ \E p \in People : EventsOf("purchase", p) # {}
    /\ events[Len(events)][1] = "regen"

\* C13 - Run completion: Run(n) on a new engine returns after exactly n
\* ticks with the tick counter at n, whatever failed on the way; a run in
\* progress always returns.
C13_RunCompletion ==
    /\ []((pc = "idle" /\ ticksDone = runI)
            => (runI = runN /\ currentTick = runN))
    /\ [][(pc # "idle" /\ pc' = "idle") => (pc = "loop" /\ runI = runN)]_vars
    /\ []((pc # "idle") => <>(pc = "idle"))

\* A first run of two ticks has returned, after a failed wage settlement
\* or resource consumption in its last tick.
C13_Witness ==
    /\ pc = "idle"
    /\ runN = 2 /\ ticksDone = 2 /\ currentTick = 2
    /\ \E i \in Industries :
          \E k \in EventsOf("wage", i) \cup EventsOf("consume", i) : ~events[k][3]

\* Positions of the event log where a step of industry i failed
FailuresOf(i) ==
    { k \in EventsOf("wage", i) \cup EventsOf("consume", i) : ~events[k][3] }

\* The tick whose events are logged has run to its end
TickFinished == pc \in {"loop", "idle"} /\ events # <<>>

\* C14 - Failure isolation: after a failed wage settlement or resource
\* consumption of an industry the engine goes on with the next industry
\* in Region order, and the tick still processes every later industry,
\* the market and the regeneration.
C14_FailureIsolation ==
    \A i \in Industries :
        \A k \in FailuresOf(i) :
            /\ k < Len(events) =>
                  IF i < NumIndustries
                  THEN events[k + 1][1] = "alloc" /\ events[k + 1][2] = i + 1
                  ELSE events[k + 1][1] \in {"purchase", "market"}
            /\ TickFinished =>
                  /\ \A j \in (i + 1)..NumIndustries :
                        \E a \in EventsOf("alloc", j) :
                            /\ a > k
                            /\ \A b \in EventsOf("alloc", j - 1) : b < a
                  /\ \E m \in EventsOf("market", 0) : m > k
                  /\ \E g \in EventsOf("regen", 0) : g > k

\* A finished tick in which the first industry failed and a later one
\* produced.
C14_Witness ==
    /\ TickFinished
    /\ FailuresOf(1) # {}
    /\ \E j \in Industries : j > 1 /\ EventsOf("commit", j) # {}

\* C15 - Wage-settlement failure: the failing step changes no money, no
\* resource and no history, and the industry neither consumes nor commits
\* in that tick.
C15_WageFailureSkips ==
    /\ [](\A i \in Industries :
            (\E k \in EventsOf("wage", i) : ~events[k][3])
                => EventsOf("consume", i) \cup EventsOf("commit", i) = {})
    /\ [][(pc = "pay" /\ indMoney[indIdx] < WageBill)
            => /\ UNCHANGED <<indMoney, perMoney, qty, history>>
               /\ ~events'[Len(events')][3]
               /\ pc' \in {"alloc", "person"}]_vars

\* A finished tick in which the last industry failed its wage settlement
\* and a purchase was made afterwards.
C15_Witness ==
    /\ TickFinished
    /\ \E k \in EventsOf("wage", NumIndustries) :
          /\ ~events[k][3]
          /\ events[k + 1][1] = "purchase"

\* Industry i was paid and consumed its inputs successfully in this tick
BothSucceeded(i) ==
    /\ \E k \in EventsOf("wage", i) : events[k][3]
    /\ \E k \in EventsOf("consume", i) : events[k][3]

\* C16 - An industry gets its outputs and a history record in a tick if
\* and only if its wage settlement and its resource consumption both
\* succeeded in that tick: the commit follows a successful consumption at
\* once, adds the units to every output and one record to the history,
\* and no other production step raises a quantity or changes a history.
C16_CommitIffBothSucceeded ==
    /\ [](\A i \in Industries :
            /\ EventsOf("commit", i) # {} => BothSucceeded(i)
            /\ (BothSucceeded(i) /\ (i # indIdx \/ pc # "commit"))
                  => EventsOf("commit", i) # {})
    /\ [][IF pc = "commit"
          THEN /\ history'[indIdx] = RecordProduction(history[indIdx], CommitRecord)
               /\ qty' = AddOutputs(outputs[indIdx], 1, result.UnitsProduced, qty)
               /\ result.UnitsProduced > 0
               /\ BothSucceeded(indIdx)
          ELSE /\ history' = history
               /\ pc \in {"alloc", "pay", "consume"}
                     => \A r \in Resources : qty'[r] <= qty[r]]_vars

\* A finished tick with an industry that produced and one that did not
C16_Witness ==
    /\ TickFinished
    /\ \E i, j \in Industries :
          /\ EventsOf("commit", i) # {}
          /\ EventsOf("alloc", j) # {} /\ EventsOf("commit", j) = {}
          /\ history[j] = <<>>
          /\ history[i] # <<>>

\* C17 - Regeneration: the regeneration step adds regenerationRate to
\* every resource with a rate > 0 and leaves the others alone; a tick in
\* progress has not regenerated yet, and a finished tick has regenerated
\* exactly once, whatever its industries did.
C17_RegenerationOncePerTick ==
    /\ [](Cardinality(EventsOf("regen", 0)) = IF TickFinished THEN 1 ELSE 0)
    /\ [][IF pc = "regen"
          THEN \A r \in Resources :
                  qty'[r] = IF regenRate[r] > 0 THEN qty[r] + regenRate[r]
                            ELSE qty[r]
          ELSE \A r \in Resources :
                  qty'[r] > qty[r] => (pc = "commit" /\ r \in Range(outputs[indIdx]))]_vars

\* A finished tick in which no industry produced, an industry failed, and
\* the land has grown by its rate.
C17_Witness ==
    /\ TickFinished
    /\ \E i \in Industries : FailuresOf(i) # {}
    /\ \A i \in Industries : EventsOf("commit", i) = {}
    /\ regenRate[1] > 0
    /\ qty[1] = tickStartQty[1] + regenRate[1]

\* Raw resources: an input of some industry and an output of none
RawResources ==
    { r \in Resources :
        /\ \E i \in Industries : r \in Range(inputs[i])
        /\ \A i \in Industries : r \notin Range(outputs[i]) }

\* C18 - A raw resource with regenerationRate = 0 that is an input of no
\* industry that produced in the tick has, at the end of the tick, the
\* quantity it had at the start.
C18_UnconsumedUnchanged ==
    TickFinished =>
        \A r \in RawResources :
            (/\ regenRate[r] = 0
             /\ \A i \in Industries :
                   r \in Range(inputs[i]) => EventsOf("commit", i) = {})
                => qty[r] = tickStartQty[r]

\* C19 - Labor-hours reset: at the end of every tick every person's
\* labor-hours equal the standard value, whatever they were before.
C19_LaborHoursReset ==
    TickFinished => \A p \in People : laborHours[p] = StandardLaborHours

\* C20 - Production calculation: laborUsed is the smaller of the allocated
\* labor and laborNeeded; unitsProduced = (laborUsed / laborNeeded) x
\* hours and laborCost = laborUsed x wageRate x hours; full labor gives
\* exactly the hours; laborNeeded 10 with 5 allocated at wage 10 for 40
\* hours gives laborUsed 5, 20 units and a labor cost of 2000; laborNeeded
\* 0 gives 0 units.  (Labor is in units of 1/LaborScale.)
C20_ProductionCalculation ==
    /\ calcArgs # <<>> =>
          result = CalculateProduction(calcArgs[1], calcArgs[2], calcArgs[3],
                                       calcArgs[4])
    /\ \A i \in Industries, a \in CalcLaborSet, h \in CalcHoursSet :
          LET L == laborNeeded[i]
              w == WagePerHour
              r == CalculateProduction(i, a, h, w)
          IN /\ r.LaborUsed <= a /\ r.LaborUsed <= L
             /\ r.LaborUsed \in {a, L}
             /\ L > 0 => r.UnitsProduced * L = r.LaborUsed * h
             /\ r.LaborCost * LaborScale = r.LaborUsed * w * h
             /\ (L > 0 /\ a = L) => r.UnitsProduced = h
             /\ (L = 10 * LaborScale /\ a = 5 * LaborScale /\ h = HoursPerWeek)
                   => /\ r.LaborUsed = 5 * LaborScale
                      /\ r.UnitsProduced = 20
                      /\ r.LaborCost = 2000
             /\ L = 0 => r.UnitsProduced = 0

\* CalculateProduction has been called with laborNeeded 10, 5 allocated,
\* wage 10 and 40 hours.
C20_Witness ==
    /\ calcArgs # <<>>
    /\ laborNeeded[calcArgs[1]] = 10 * LaborScale
    /\ calcArgs[2] = 5 * LaborScale
    /\ calcArgs[3] = HoursPerWeek
    /\ calcArgs[4] = WagePerHour
    /\ result.LaborUsed = 5 * LaborScale
    /\ result.UnitsProduced = 20
    /\ result.LaborCost = 2000

\* C21 - Successful wage payment: with money >= the wage bill PayWorkers
\* takes workers x hours x rate from the industry, gives every worker hours
\* x rate, and returns one payment record per worker, in worker order,
\* with the worker's name, the hours, the rate and the amount.
C21_WagePayment ==
    [][(pc = "pay" /\ indMoney[indIdx] >= WageBill)
        => LET wage == HoursAvailable * WagePerHour
           IN /\ indMoney' = [indMoney EXCEPT
                                 ![indIdx] = @ - Len(workers) * wage]
              /\ \A p \in People :
                    perMoney'[p] = perMoney[p]
                        + (IF p \in Range(workers) THEN wage ELSE 0)
              /\ Len(payments') = Len(workers)
              /\ \A k \in DOMAIN workers :
                    /\ payments'[k].PersonName = personName[workers[k]]
                    /\ payments'[k].Industry = indIdx
                    /\ payments'[k].HoursWorked = HoursAvailable
                    /\ payments'[k].WageRate = WagePerHour
                    /\ payments'[k].TotalPaid = wage
              /\ pc' = "consume"]_vars

\* Two workers have just been paid by an industry that held exactly the
\* wage bill.
C21_Witness ==
    /\ pc = "consume"
    /\ Len(workers) = 2
    /\ Len(payments) = 2
    /\ indMoney[indIdx] = 0
    /\ \A k \in DOMAIN workers : perMoney[workers[k]] >= WagePerWorker

\* C30 - Output commit: the commit step of a producing industry adds the
\* full unitsProduced to each of its output resources and to nothing else,
\* and the history record it appends carries the engine's current tick and
\* the calculator's unitsProduced, totalCost, costPerUnit, laborCost and
\* resourceCost.
C30_OutputCommit ==
    [][pc = "commit"
        => LET calc == CalculateProduction(indIdx, Len(workers) * LaborScale,
                                           HoursAvailable, WagePerHour)
               rec == history'[indIdx][Len(history'[indIdx])]
           IN /\ calc.UnitsProduced > 0
              /\ \A r \in Resources :
                    qty'[r] = qty[r]
                        + (IF r \in Range(outputs[indIdx])
                           THEN calc.UnitsProduced ELSE 0)
              /\ Len(history'[indIdx]) > 0
              /\ rec.Tick = currentTick
              /\ rec.UnitsProduced = calc.UnitsProduced
              /\ rec.TotalCost = calc.TotalCost
              /\ rec.CostPerUnit = calc.CostPerUnit
              /\ rec.LaborCost = calc.LaborCost
              /\ rec.ResourceCost = calc.ResourceCost]_vars

\* The industry with two outputs has committed in the second tick: both
\* products hold at least the units of its latest record.
C30_Witness ==
    /\ EventsOf("commit", NumIndustries) # {}
    /\ Len(outputs[NumIndustries]) = 2
    /\ currentTick = 2
    /\ LET rec == history[NumIndustries][Len(history[NumIndustries])]
       IN /\ rec.Tick = 2
          /\ rec.UnitsProduced > 0
          /\ \A r \in Range(outputs[NumIndustries]) :
                qty[r] >= rec.UnitsProduced

\* The people that appear as buyer in the purchase list
Buyers == { purchases[k].Person : k \in DOMAIN purchases }

\* Sum of TotalCost over the purchases from position k on
RECURSIVE CostFrom(_)
CostFrom(k) ==
    IF k > Len(purchases) THEN 0
    ELSE purchases[k].TotalCost + CostFrom(k + 1)

\* C25 - Satisfaction counts: once a market pass is over, PeopleSatisfied
\* is the number of distinct people with a purchase in the pass,
\* PeopleUnsatisfied is the number of people of the region minus that, and
\* TotalSpent = TotalRevenue = the sum of TotalCost over the purchases.
C25_SatisfactionCounts ==
    EventsOf("market", 0) # {}
        => /\ market.PeopleSatisfied = Cardinality(Buyers)
           /\ market.PeopleUnsatisfied = NumPeople - Cardinality(Buyers)
           /\ market.TotalSpent = CostFrom(1)
           /\ market.TotalRevenue = CostFrom(1)

\* A finished market pass in which one person bought twice and another
\* person bought nothing.
C25_Witness ==
    /\ EventsOf("market", 0) # {}
    /\ \E j, k \in DOMAIN purchases :
          j # k /\ purchases[j].Person = purchases[k].Person
    /\ People \ Buyers # {}
    /\ market.PeopleSatisfied < Len(purchases)
    /\ market.PeopleUnsatisfied > 0

LastConsume ==
    [Industry |-> events[1][2][1], Units |-> events[1][2][2],
     Before |-> events[1][2][3], Returned |-> events[1][3]]

\* C22 - Single-input shortfall: when the only declared input holds
\* q < unitsToProduce, ConsumeResources returns an error that names that
\* resource, and the resource still holds q (5 requested 10 leaves 5).
C22_SingleInputShortfall ==
    events # <<>> =>
        LET c == LastConsume
            ins == inputs[c.Industry]
        IN (Len(ins) = 1 /\ c.Before[ins[1]] < c.Units)
              => /\ c.Returned.err
                 /\ c.Returned.consumptions = <<>>
                 /\ c.Returned.insufficient[1] = ins[1]
                 /\ qty[ins[1]] = c.Before[ins[1]]
                 /\ qty = c.Before

\* The single-input industry asked for 10 units of a resource holding 5.
C22_Witness ==
    /\ events # <<>>
    /\ Len(inputs[LastConsume.Industry]) = 1
    /\ LastConsume.Units = 10
    /\ LastConsume.Before[inputs[LastConsume.Industry][1]] = 5
    /\ LastConsume.Returned.err
    /\ qty[inputs[LastConsume.Industry][1]] = 5

\* C23 - Successful consumption: when every declared input holds at least
\* unitsToProduce, ConsumeResources takes exactly unitsToProduce from each
\* declared input and returns one record per input, in input order, with
\* quantity unitsToProduce and cost 0 for a free input, unitsToProduce x 1
\* otherwise.
C23_SuccessfulConsumption ==
    events # <<>> =>
        LET c == LastConsume
            ins == inputs[c.Industry]
        IN (\A r \in Range(ins) : c.Before[r] >= c.Units)
              => /\ ~c.Returned.err
                 /\ \A r \in Resources :
                       qty[r] = c.Before[r]
                           - (IF r \in Range(ins) THEN c.Units ELSE 0)
                 /\ Len(c.Returned.consumptions) = Len(ins)
                 /\ \A k \in DOMAIN ins :
                       c.Returned.consumptions[k]
                         = [Resource |-> ins[k], Quantity |-> c.Units,
                            Cost |-> IF isFree[ins[k]] THEN 0 ELSE c.Units]

\* The two-input industry consumed 10 units with 50 free Land and 100
\* Ore in stock: 40 and 90 are left, the Land record costs 0, the Ore
\* record 10.
C23_Witness ==
    /\ events # <<>>
    /\ Len(inputs[LastConsume.Industry]) = 2
    /\ LastConsume.Units = 10
    /\ LastConsume.Before[1] = 50 /\ LastConsume.Before[2] = 100
    /\ qty[1] = 40 /\ qty[2] = 90
    /\ ~LastConsume.Returned.err
    /\ LastConsume.Returned.consumptions[1].Cost = 0
    /\ LastConsume.Returned.consumptions[2].Cost = 10

\* The product a purchase for the need is attempted on (0 when none)
ProductFor(need) ==
    LET i == FirstOwner(need)
    IN IF i = 0 \/ Len(outputs[i]) = 0 THEN 0 ELSE outputs[i][1]

\* The successful purchases of product r in the current market pass
PurchasesOf(r) == { k \in DOMAIN purchases : purchases[k].Product = r }

\* The people with a need that is served by product r
Wanting(r) == { p \in People : \E n \in ProblemSet(p) : ProductFor(n) = r }

\* C24 - Stock limit within one market pass: for every product the
\* successful purchases of a pass never exceed the units it held when the
\* pass began, and each of them takes one unit; an attempt on a product
\* without a unit left fails; a product that began the pass with one unit
\* and has a buyer who can pay is bought exactly once in the pass.
C24_StockLimit ==
    /\ [](pc \in {"person", "need", "regen"}
            => \A r \in Resources :
                  /\ Cardinality(PurchasesOf(r)) <= tickStartQty[r]
                  /\ qty[r] = tickStartQty[r] - Cardinality(PurchasesOf(r)))
    /\ [][(pc = "need" /\ ProductFor(Head(needs)) # 0
                       /\ qty[ProductFor(Head(needs))] < 1)
            => purchases' = purchases /\ qty' = qty]_vars
    /\ [](pc = "regen"
            => \A r \in Resources :
                  (/\ tickStartQty[r] = 1
                   /\ \E p \in Wanting(r) :
                         \/ perMoney[p] >= PricePerUnit
                         \/ \E k \in PurchasesOf(r) : purchases[k].Person = p)
                      => Cardinality(PurchasesOf(r)) = 1)

\* A pass that began with one unit of Food is over: a buyer who held 100
\* bought it and has 50 left, and another person who wants Food and can
\* pay got none.
C24_Witness ==
    /\ pc = "regen"
    /\ tickStartQty[3] = 1
    /\ qty[3] = 0
    /\ \E k \in DOMAIN purchases :
          /\ PurchasesOf(3) = {k}
          /\ perMoney[purchases[k].Person] = PricePerUnit
          /\ PurchasesOf(4) = {}
          /\ \E p \in Wanting(3) :
                /\ p > purchases[k].Person
                /\ perMoney[p] >= PricePerUnit

\* The people that carry a segment named "Workers"
WorkerPeople ==
    { p \in People :
        \E k \in DOMAIN personSegs[p] : segName[personSegs[p][k]] = "Workers" }

\* C29 - Worker pool content: the pool is exactly the people that belong
\* to a segment named "Workers", each once and in Region.People order; it
\* is empty when the region has no segment named "Workers"; building it
\* changes nothing but the pool.
C29_WorkerPool ==
    /\ [](events # <<>> =>
            LET W == IF \E k \in DOMAIN regionSegs :
                           segName[regionSegs[k]] = "Workers"
                     THEN WorkerPeople ELSE {}
            IN /\ Range(availableWorkers) = W
               /\ Len(availableWorkers) = Cardinality(W)
               /\ \A j, k \in DOMAIN availableWorkers :
                     j < k => availableWorkers[j] < availableWorkers[k])
    /\ [][events' # events
            => UNCHANGED <<static, region, engine, pc, control, marketLocals,
                           indIdx, allocations, workers, result, payments>>]_vars

\* A pool of two has been built in a region that lists two "Workers"
\* segments, with a worker who carries the segment twice and somebody who
\* is not a worker.
C29_Witness ==
    /\ events # <<>>
    /\ Len(availableWorkers) = 2
    /\ Cardinality({ k \in DOMAIN regionSegs :
                       segName[regionSegs[k]] = "Workers" }) = 2
    /\ \E p \in Range(availableWorkers) : personSegs[p] = <<1, 1>>
    /\ People \ WorkerPeople # {}

\* The region lists no "Workers" segment, a person carries one, and the
\* pool that was built is empty.
C29_WitnessNoSegment ==
    /\ events # <<>>
    /\ \A k \in DOMAIN regionSegs : segName[regionSegs[k]] # "Workers"
    /\ WorkerPeople # {}
    /\ availableWorkers = <<>>

\* C27 - Engine creation: a new engine has tick counter 0, keeps the wage,
\* weeks and hours it was given (10, 4 and 40 from CreateNewEngine), and
\* its initial-wealth snapshot is the sum of the money of all industries
\* and all people at creation time; creating it changes nothing in the
\* region.
C27_EngineCreation ==
    /\ [](pc = "idle" =>
            /\ currentTick = 0
            /\ params = events[1][2]
            /\ events[1][1] = "CreateNewEngine" => params = <<10, 4, 40>>
            /\ initialWealth = SumOver(indMoney, Industries)
                                 + SumOver(perMoney, People))
    /\ [][pc = "none"
            => UNCHANGED <<personName, personSegs, laborHours, laborNeeded,
                           inputs, isFree, regenRate, regionSegs, indMoney,
                           perMoney, qty, history>>]_vars

\* An engine made by CreateNewEngine for two industries holding 5000 and
\* 3000 and people holding 100 and 200.
C27_Witness ==
    /\ pc = "idle"
    /\ events[1][1] = "CreateNewEngine"
    /\ params = <<WagePerHour, WeeksPerTick, HoursPerWeek>>
    /\ indMoney[1] = 5000 /\ indMoney[2] = 3000
    /\ perMoney[1] = 100 /\ perMoney[2] = 200
    /\ initialWealth >= 8300
    /\ currentTick = 0

\* An engine made by NewEngineWithParams with a wage of 15, 1 week per
\* tick and 8 hours per week.
C27_WitnessParams ==
    /\ pc = "idle"
    /\ events[1][1] = "NewEngineWithParams"
    /\ params = <<15, 1, 8>>
    /\ initialWealth > 0

\* C26 - Logger non-interference: the same ticks run on identical regions
\* with the logger enabled and with the logger disabled end in the same
\* money, resource quantities, production histories and tick counter.
C26_LoggerNonInterference ==
    (twin.done /\ ~enabled /\ pc = "idle" /\ ticksDone = twin.ticks)
        => <<indMoney, perMoney, qty, history, currentTick>> = twin.final

\* The problems listed by the segments of person p
SegmentProblems(p) ==
    { q \in Problems :
        \E k \in DOMAIN personSegs[p] : q \in Range(segProblems[personSegs[p][k]]) }

\* C32 - Effective need set: GetAllProblems returns exactly one problem
\* per distinct problem name that occurs in a segment of the person, each
\* of them a problem of one of the person's segments, and nothing for a
\* person without segments.
C32_EffectiveNeedSet ==
    events # <<>> =>
        LET p == perIdx
            names == { probName[q] : q \in SegmentProblems(p) }
        IN /\ Len(needs) = Cardinality(names)
           /\ { probName[needs[k]] : k \in DOMAIN needs } = names
           /\ Range(needs) \subseteq SegmentProblems(p)
           /\ personSegs[p] = <<>> => needs = <<>>

\* GetAllProblems of a person whose two segments list two different
\* problems called "Food" has returned one "Food" and one "Healthcare".
C32_Witness ==
    /\ events # <<>>
    /\ Cardinality(SegmentProblems(perIdx)) = 3
    /\ Len(personSegs[perIdx]) = 2
    /\ Len(needs) = 2
    /\ probName[needs[1]] = "Healthcare"
    /\ probName[needs[2]] = "Food"

\* GetAllProblems of a person without segments has returned nothing.
C32_WitnessNoSegments ==
    /\ events # <<>>
    /\ personSegs[perIdx] = <<>>
    /\ needs = <<>>

\* C34 - At most one purchase per need: in a market pass no person has
\* two purchases for the same need; every purchase is from the first
\* industry, in Region order, that owns the problem and of that industry's
\* first output product; when that product is out of stock or the person
\* cannot pay, the need is passed over and nothing changes.
C34_OnePurchasePerNeed ==
    /\ [](\A j, k \in DOMAIN purchases :
            /\ (/\ purchases[j].Person = purchases[k].Person
                /\ purchases[j].Problem = purchases[k].Problem) => j = k
            /\ purchases[k].Industry = FirstOwner(purchases[k].Problem)
            /\ purchases[k].Product = outputs[purchases[k].Industry][1])
    /\ [][(pc = "need" /\ (\/ ProductFor(Head(needs)) = 0
                           \/ qty[ProductFor(Head(needs))] < 1
                           \/ perMoney[perIdx] < PricePerUnit))
            => UNCHANGED <<purchases, qty, indMoney, perMoney>>]_vars

\* A pass is over in which a person who could pay wanted Food, the first
\* Food industry's product was out of stock, the second Food industry's
\* first product was in stock, and the person bought nothing.
C34_Witness ==
    /\ pc = "regen"
    /\ tickStartQty[ProductFor(1)] = 0
    /\ \E i \in Industries :
          /\ i # FirstOwner(1)
          /\ 1 \in Range(owned[i])
          /\ qty[outputs[i][1]] >= 1
    /\ \E p \in People :
          /\ ProblemSet(p) = {1}
          /\ perMoney[p] >= PricePerUnit
          /\ \A k \in DOMAIN purchases : purchases[k].Person # p

\* The industries that have completed production in the current tick
Producers == { i \in Industries : EventsOf("commit", i) # {} }

\* C35 - Disjoint workforces of producing industries: within a tick no
\* worker belongs to two industries that both completed production, and
\* the producing industries together employ at most as many workers as
\* the tick's pool holds.
C35_DisjointWorkforces ==
    /\ \A i, j \in Producers :
          i # j => Range(allocations[i]) \cap Range(allocations[j]) = {}
    /\ \A i \in Producers : Len(allocations[i]) > 0
    /\ SumOver([i \in Industries |-> Len(allocations[i])], Producers)
          <= Len(getAvailableWorkers)

\* Two industries have completed production in one tick, and between
\* them they employ the whole pool.
C35_Witness ==
    /\ Cardinality(Producers) = 2
    /\ SumOver([i \in Industries |-> Len(allocations[i])], Producers)
          = Len(getAvailableWorkers)
    /\ \E i \in Producers : Len(allocations[i]) = 2

\* The production phase of a tick, up to the state in which it has ended
\* and the market has not served anybody yet
InProduction ==
    \/ pc \in {"alloc", "pay", "consume", "commit"}
    \/ pc = "person" /\ perIdx = 1

UniqueNames == \A p, q \in People : personName[p] = personName[q] => p = q

\* C36 - Single wage per worker per tick: with unique person names, what
\* a person has gained from wages in the production phase (payments minus
\* refunds) is 0 or exactly availableHours x wageRate, during the phase
\* and at its end.
C36_SingleWage ==
    (UniqueNames /\ InProduction)
        => \A p \in People :
              perMoney[p] - tickStartMoney[p] \in {0, HoursAvailable * WagePerHour}

\* The production phase has ended; a worker who was paid and refunded by
\* the first industry was paid by the second one too and holds one wage.
C36_Witness ==
    /\ UniqueNames
    /\ pc = "person" /\ perIdx = 1
    /\ \E k \in EventsOf("consume", 1) : ~events[k][3]
    /\ \E k \in EventsOf("wage", 2) : events[k][3]
    /\ \E p \in Range(allocations[1]) \cap Range(allocations[2]) :
          perMoney[p] - tickStartMoney[p] = HoursAvailable * WagePerHour

\* Sum of TotalPaid over the payment records from position k on
RECURSIVE PaidFrom(_, _)
PaidFrom(pay, k) ==
    IF k > Len(pay) THEN 0 ELSE pay[k].TotalPaid + PaidFrom(pay, k + 1)

\* C37 - Recorded labor cost matches money moved: a successful wage
\* settlement takes from the industry exactly the sum of its payment
\* records, and the history record written when the industry completes
\* production carries that same amount as laborCost, also for a labor
\* need that is not a whole number.
C37_LaborCostMatchesWages ==
    /\ [][(pc = "pay" /\ pc' = "consume")
            => /\ indMoney[indIdx] - indMoney'[indIdx] = PaidFrom(payments', 1)
               /\ PaidFrom(payments', 1) > 0]_vars
    /\ [][pc = "commit"
            => history'[indIdx][Len(history'[indIdx])].LaborCost
                  = PaidFrom(payments, 1)]_vars

\* An industry needing 2.5 workers has completed production with 2 and
\* its record carries the 3200 it paid them.
C37_Witness ==
    /\ \E i \in Producers :
          /\ laborNeeded[i] = 5
          /\ LaborScale = 2
          /\ Len(allocations[i]) = 2
          /\ history[i][Len(history[i])].LaborCost = 3200
          /\ history[i][Len(history[i])].Tick = currentTick

\* C38 - Tick numbering across runs: over any sequence of Run calls the
\* tick counter never decreases, and the tick numbers of an industry's
\* production history are strictly increasing in append order.
C38_TickNumbering ==
    /\ [][currentTick' >= currentTick]_vars
    /\ [](\A i \in Industries : \A j, k \in DOMAIN history[i] :
            j < k => history[i][j].Tick < history[i][k].Tick)

\* C39 - Shared input resource: industries that declare the same input are
\* processed in Region order and each consumption is checked against and
\* taken from the quantity the earlier ones left; for a resource that is
\* an output of no industry, what the production phase of one tick has
\* consumed of it is between 0 and its quantity at the start of the tick.
C39_SharedInput ==
    /\ [](InProduction =>
            \A r \in RawResources :
                /\ tickStartQty[r] - qty[r] >= 0
                /\ tickStartQty[r] - qty[r] <= tickStartQty[r])
    /\ [](\A k, l \in DOMAIN events :
            (k < l /\ events[k][1] = "consume" /\ events[l][1] = "consume")
                => events[k][2] < events[l][2])
    /\ [][pc = "consume" =>
            \A r \in Range(inputs[indIdx]) :
                \/ qty'[r] = qty[r]
                \/ /\ qty[r] >= result.UnitsProduced
                   /\ qty'[r] = qty[r] - result.UnitsProduced]_vars

\* Production is over; the first industry consumed the shared Ore and the
\* second one, which the tick-start quantity would have served, found too
\* little of it left.
C39_Witness ==
    /\ pc = "person" /\ perIdx = 1
    /\ \E k \in EventsOf("consume", 1) : events[k][3]
    /\ \E k \in EventsOf("consume", 2) : ~events[k][3]
    /\ 2 \in Range(inputs[1]) \cap Range(inputs[2])
    /\ qty[2] < tickStartQty[2]
    /\ result.UnitsProduced <= tickStartQty[2]
    /\ result.UnitsProduced > qty[2]

\* The industry was allocated no worker in the tick whose events are logged
IdleIndustry(i) == \E k \in EventsOf("alloc", i) : ~events[k][3]

\* C40 - Idle industry frame: the turn of an industry that is allocated
\* zero workers ends with the allocation, leaving every money balance,
\* every resource quantity, every production history and the available
\* worker pool as they were; no wage, consumption or commit step of that
\* industry follows in the tick.
C40_IdleIndustryFrame ==
    /\ [][(pc = "alloc" /\ pc' # "alloc" /\ pc' # "person") =>
             AllocateWorkers(laborNeeded[indIdx], availableWorkers) # <<>>]_vars
    /\ [][(pc = "alloc" /\
             AllocateWorkers(laborNeeded[indIdx], availableWorkers) = <<>>) =>
            /\ UNCHANGED <<indMoney, perMoney, qty, history, availableWorkers>>
            /\ pc' = "alloc" => indIdx' = indIdx + 1]_vars
    /\ [](\A i \in Industries :
            IdleIndustry(i) =>
                EventsOf("wage", i) \cup EventsOf("consume", i)
                    \cup EventsOf("commit", i) = {})

\* The first industry produced and took the whole pool; the second one,
\* which needs at least one worker, was allocated none, and the production
\* phase is over.
C40_Witness ==
    /\ pc = "person" /\ perIdx = 1
    /\ EventsOf("commit", 1) # {}
    /\ IdleIndustry(2)
    /\ laborNeeded[2] >= LaborScale
    /\ availableWorkers = <<>>

\* An industry whose labor need is below 1 was allocated no worker although
\* the pool was not empty.
C40_WitnessNoNeed ==
    /\ pc = "person" /\ perIdx = 1
    /\ \E i \in Industries :
          IdleIndustry(i) /\ laborNeeded[i] = 1 /\ availableWorkers # <<>>

\* The names that a configuration defines
DefinedProblems == Range(config.Problems)
DefinedResources == Range(config.Resources)

\* An industry of the configuration names a problem or an input resource
\* that the configuration does not define (an input may also be a product
\* of an earlier industry).
IndustryReferenceUndefined ==
    \E i \in Industries :
        \/ ~(Range(config.Industries[i].SolvesProblems) \subseteq DefinedProblems)
        \/ ~(Range(config.Industries[i].InputResources) \subseteq
                DefinedResources \cup
                UNION { Range(config.Industries[j].OutputResources) :
                          j \in 1..(i - 1) })

\* A population segment of the configuration names an undefined problem
SegmentReferenceUndefined ==
    \E k \in DOMAIN config.Segments :
        ~(Range(config.Segments[k].HasProblems) \subseteq DefinedProblems)

\* A region was returned, or an engine was made for it
RegionReturned == pc \in {"none", "idle"}

\* C33 - Builder fail-fast: with an industry that references an undefined
\* problem or input resource the build returns an error and no region, and
\* no engine is made; a region is returned only for a configuration in
\* which no industry and no population segment references an undefined
\* name.
C33_BuilderFailFast ==
    /\ (pc # "config" /\ IndustryReferenceUndefined) =>
           /\ pc = "failed"
           /\ events[1][2] # <<>> /\ events[1][3] = <<>>
    /\ RegionReturned =>
           ~IndustryReferenceUndefined /\ ~SegmentReferenceUndefined

\* The part of C33 about the industries' references
C33_IndustryReferences ==
    (pc # "config" /\ IndustryReferenceUndefined) =>
        /\ pc = "failed"
        /\ events[1][2] # <<>> /\ events[1][3] = <<>>

\* An engine exists for a region whose segment lost an undefined problem
C33_SegmentSkipped ==
    /\ pc = "idle"
    /\ SegmentReferenceUndefined

\* The number of declared inputs of an industry that are not free
NonFreeInputs(i) == Cardinality({ k \in DOMAIN inputs[i] : ~isFree[inputs[i][k]] })

\* Position of a float32 value among the float32 values >= 0, from an
\* offset: neighbouring values have neighbouring positions
F32Position(x) == IF x.m = 0 THEN 0 ELSE (x.e + 64) * Two23 + (x.m - Two23)

\* The number of float32 values from a to b
F32Distance(a, b) ==
    IF F32Position(a) >= F32Position(b) THEN F32Position(a) - F32Position(b)
    ELSE F32Position(b) - F32Position(a)

\* The resource and total cost of a float32 result
Cost32Sums ==
    /\ result.ResourceCost =
           F32Mul(F32Norm(NonFreeInputs(calcArgs[1]), 0), result.UnitsProduced)
    /\ result.TotalCost = F32Add(result.LaborCost, result.ResourceCost)

\* C31 - Cost figures: for every CalculateProduction result, resourceCost =
\* (number of non-free declared inputs) x unitsProduced, totalCost =
\* laborCost + resourceCost, and costPerUnit x unitsProduced = totalCost
\* when unitsProduced > 0 while costPerUnit = 0 when unitsProduced = 0.
C31_CostFigures ==
    calcArgs # <<>> =>
        /\ Cost32Sums
        /\ result.UnitsProduced.m > 0 =>
               F32Mul(result.CostPerUnit, result.UnitsProduced) = result.TotalCost
        /\ result.UnitsProduced.m = 0 => result.CostPerUnit = F32Zero

\* C31 (amended) - Cost figures in float32: resourceCost = (number of
\* non-free declared inputs) x unitsProduced, totalCost = laborCost +
\* resourceCost; when unitsProduced > 0 costPerUnit is the rounded
\* quotient totalCost / unitsProduced, and costPerUnit x unitsProduced is
\* totalCost or a float32 value next to it; costPerUnit = 0 when
\* unitsProduced = 0.
C31_CostFiguresRounded ==
    calcArgs # <<>> =>
        /\ Cost32Sums
        /\ result.UnitsProduced.m > 0 =>
               /\ result.CostPerUnit =
                      F32Div(result.TotalCost, result.UnitsProduced)
               /\ F32Distance(F32Mul(result.CostPerUnit, result.UnitsProduced),
                              result.TotalCost) <= 1
        /\ result.UnitsProduced.m = 0 => result.CostPerUnit = F32Zero

\* Five workers for an industry that needs 7, with a priced input: the
\* units, the cost per unit and their product are all rounded, and the
\* product is not the total cost.
C31_Witness ==
    /\ calcArgs # <<>>
    /\ laborNeeded[calcArgs[1]] = 7 * LaborScale
    /\ calcArgs[2] = 5 * LaborScale
    /\ NonFreeInputs(calcArgs[1]) > 0
    /\ result.UnitsProduced.m > 0
    /\ F32Mul(result.CostPerUnit, result.UnitsProduced) # result.TotalCost

====
